---- MODULE Spec2Model ----
(***************************************************************************)
(* A model of the oak_http_server connection driver (src/lib/lib.rs), its  *)
(* request builder, router and chunked response writer.                    *)
(*                                                                         *)
(* Text is modelled at the level of characters: a string is a sequence of  *)
(* one-character strings, the socket's receive buffer is such a sequence,  *)
(* and every stream.write call appends one such sequence to the wire.      *)
(***************************************************************************)
EXTENDS Integers, Sequences, FiniteSets, TLC

(***************************************************************************)
(* Literals                                                                *)
(***************************************************************************)
CRLF == <<"\r", "\n">>
S_GET == <<"G", "E", "T">>
S_HEAD == <<"H", "E", "A", "D">>
S_POST == <<"P", "O", "S", "T">>
S_PUT == <<"P", "U", "T">>
S_DELETE == <<"D", "E", "L", "E", "T", "E">>
S_HTTP == <<"H", "T", "T", "P">>
S_host == <<"h", "o", "s", "t">>
S_connection == <<"c", "o", "n", "n", "e", "c", "t", "i", "o", "n">>
S_keep_alive == <<"k", "e", "e", "p", "-", "a", "l", "i", "v", "e">>
S_close == <<"c", "l", "o", "s", "e">>
S_timeout == <<"t", "i", "m", "e", "o", "u", "t">>
S_max == <<"m", "a", "x">>
S_cookie == <<"c", "o", "o", "k", "i", "e">>
S_transfer_encoding == <<"t", "r", "a", "n", "s", "f", "e", "r", "-", "e", "n", "c", "o", "d", "i", "n", "g">>
S_content_length == <<"c", "o", "n", "t", "e", "n", "t", "-", "l", "e", "n", "g", "t", "h">>
S_chunked == <<"c", "h", "u", "n", "k", "e", "d">>
S_Transfer_Encoding == <<"T", "r", "a", "n", "s", "f", "e", "r", "-", "E", "n", "c", "o", "d", "i", "n", "g">>
S_Date == <<"D", "a", "t", "e">>
S_LastChunk == <<"0", "\r", "\n", "\r", "\n">>

\* Printable ASCII, codes 32 to 126 in order (code 96, the grave accent, is
\* written as an atom: the lexer rejects it inside a string).
Ascii ==
  <<
    " ", "!", "\"", "#", "$", "%", "&", "'", "(", ")", "*", "+", ",", "-", ".", "/",
    "0", "1", "2", "3", "4", "5", "6", "7", "8", "9", ":", ";", "<", "=", ">", "?",
    "@", "A", "B", "C", "D", "E", "F", "G", "H", "I", "J", "K", "L", "M", "N", "O",
    "P", "Q", "R", "S", "T", "U", "V", "W", "X", "Y", "Z", "[", "\\", "]", "^", "_",
    "<grave>", "a", "b", "c", "d", "e", "f", "g", "h", "i", "j", "k", "l", "m", "n", "o",
    "p", "q", "r", "s", "t", "u", "v", "w", "x", "y", "z", "{", "|", "}", "~"
  >>

(***************************************************************************)
(* The std string operations the code uses                                 *)
(***************************************************************************)
\* Code point of a character of the model's alphabet (0 when outside it).
CodeOf(c) ==
  IF \E i \in 1..Len(Ascii) : Ascii[i] = c
    THEN 31 + (CHOOSE i \in 1..Len(Ascii) : Ascii[i] = c)
    ELSE CASE c = "\t" -> 9 [] c = "\n" -> 10 [] c = "\r" -> 13 [] OTHER -> 0

\* char::from_u32 on a code below 256; codes outside the alphabet share one atom.
CharFromCode(n) ==
  IF n >= 32 /\ n <= 126 THEN Ascii[n - 31]
  ELSE CASE n = 9 -> "\t" [] n = 10 -> "\n" [] n = 13 -> "\r" [] OTHER -> "<other>"

\* char::is_whitespace
IsWhitespace(c) == c \in {" ", "\t", "\r", "\n"}

\* char::is_digit(10) and its value
IsDigit(c) == CodeOf(c) >= 48 /\ CodeOf(c) <= 57

DigitVal(c) == CodeOf(c) - 48

\* char::is_digit(16) and its value
IsHexDigit(c) ==
  \/ IsDigit(c)
  \/ (CodeOf(c) >= 65 /\ CodeOf(c) <= 70)
  \/ (CodeOf(c) >= 97 /\ CodeOf(c) <= 102)

HexVal(c) ==
  IF IsDigit(c) THEN DigitVal(c)
  ELSE IF CodeOf(c) >= 97 THEN CodeOf(c) - 87 ELSE CodeOf(c) - 55

\* str::to_lowercase
LowerChar(c) ==
  IF CodeOf(c) >= 65 /\ CodeOf(c) <= 90 THEN CharFromCode(CodeOf(c) + 32) ELSE c

to_lowercase(s) == [i \in 1..Len(s) |-> LowerChar(s[i])]

\* Whether sep occurs in s at position i.
OccursAt(s, sep, i) ==
  /\ i >= 1
  /\ i + Len(sep) - 1 <= Len(s)
  /\ SubSeq(s, i, i + Len(sep) - 1) = sep

\* str::find: the first position of sep in s, 0 when there is none.
FindStr(s, sep) ==
  IF \E i \in 1..Len(s) : OccursAt(s, sep, i)
    THEN CHOOSE i \in 1..Len(s) :
           OccursAt(s, sep, i) /\ \A j \in 1..(i - 1) : ~OccursAt(s, sep, j)
    ELSE 0

\* str::split_once
split_once(s, sep) ==
  LET i == FindStr(s, sep) IN
    IF i = 0 THEN [ok |-> FALSE, left |-> s, right |-> <<>>]
    ELSE [ok |-> TRUE,
          left |-> SubSeq(s, 1, i - 1),
          right |-> SubSeq(s, i + Len(sep), Len(s))]

\* str::split with a non-empty separator: always at least one piece.
RECURSIVE split(_, _)
split(s, sep) ==
  LET i == FindStr(s, sep) IN
    IF i = 0 THEN <<s>>
    ELSE <<SubSeq(s, 1, i - 1)>> \o split(SubSeq(s, i + Len(sep), Len(s)), sep)

\* str::trim
RECURSIVE trim_start(_)
trim_start(s) ==
  IF s # <<>> /\ IsWhitespace(s[1]) THEN trim_start(Tail(s)) ELSE s

RECURSIVE trim_end(_)
trim_end(s) ==
  IF s # <<>> /\ IsWhitespace(s[Len(s)])
    THEN trim_end(SubSeq(s, 1, Len(s) - 1))
    ELSE s

trim(s) == trim_end(trim_start(s))

\* str::split_whitespace: the maximal runs of non-whitespace characters.
RECURSIVE split_whitespace(_)
split_whitespace(s) ==
  LET t == trim_start(s) IN
    IF t = <<>> THEN <<>>
    ELSE LET n == IF \E i \in 1..Len(t) : IsWhitespace(t[i])
                    THEN (CHOOSE i \in 1..Len(t) :
                            IsWhitespace(t[i]) /\ \A j \in 1..(i - 1) : ~IsWhitespace(t[j])) - 1
                    ELSE Len(t)
         IN <<SubSeq(t, 1, n)>> \o split_whitespace(SubSeq(t, n + 1, Len(t)))

\* The value of a run of decimal digits.
RECURSIVE DecValue(_)
DecValue(s) ==
  IF s = <<>> THEN 0
  ELSE 10 * DecValue(SubSeq(s, 1, Len(s) - 1)) + DigitVal(s[Len(s)])

\* str::parse::<usize>: an optional "+" and then one or more decimal digits.
parse_usize(s) ==
  LET d == IF s # <<>> /\ s[1] = "+" THEN Tail(s) ELSE s IN
    IF d # <<>> /\ \A i \in 1..Len(d) : IsDigit(d[i])
      THEN [ok |-> TRUE, val |-> DecValue(d)]
      ELSE [ok |-> FALSE, val |-> 0]

\* Display of an unsigned integer.
RECURSIVE DecString(_)
DecString(n) ==
  IF n < 10 THEN <<CharFromCode(48 + n)>>
  ELSE DecString(n \div 10) \o <<CharFromCode(48 + (n % 10))>>

\* Concatenation of a sequence of strings.
RECURSIVE Concat(_)
Concat(ss) == IF ss = <<>> THEN <<>> ELSE Head(ss) \o Concat(Tail(ss))

(***************************************************************************)
(* Maps (HashMap<String, String>) as functions on a finite set of keys     *)
(***************************************************************************)
EmptyMap == [k \in {} |-> <<>>]

\* HashMap::insert: a later insertion of the same key replaces the value.
MapInsert(m, k, v) == [x \in (DOMAIN m) \cup {k} |-> IF x = k THEN v ELSE m[x]]

\* The orders in which the entries of a hash container can be visited.
Orders(S) ==
  {o \in [1..Cardinality(S) -> S] : \A i, j \in 1..Cardinality(S) : o[i] = o[j] => i = j}

(***************************************************************************)
(* Version, Method, Status, Target                                         *)
(***************************************************************************)
\* const VERSION
VERSION == [major |-> 1, minor |-> 1]

\* Version::new: Some for "HTTP/<usize>.<usize>", None otherwise.
Version_new(version) ==
  LET none == [ok |-> FALSE, major |-> 0, minor |-> 0] IN
    IF Len(version) >= 5 /\ SubSeq(version, 1, 4) = S_HTTP /\ version[5] = "/"
      THEN LET version_split == split(SubSeq(version, 6, Len(version)), <<".">>) IN
             IF Len(version_split) = 2
               THEN LET major == parse_usize(version_split[1])
                        minor == parse_usize(version_split[2])
                    IN IF major.ok /\ minor.ok
                         THEN [ok |-> TRUE, major |-> major.val, minor |-> minor.val]
                         ELSE none
               ELSE none
      ELSE none

\* Display for Version
Version_fmt(v) == S_HTTP \o <<"/">> \o DecString(v.major) \o <<".">> \o DecString(v.minor)

\* Method::new: an exact, case-sensitive match of the five method names.
Method_new(method) ==
  CASE method = S_GET -> [ok |-> TRUE, method |-> "GET"]
    [] method = S_HEAD -> [ok |-> TRUE, method |-> "HEAD"]
    [] method = S_POST -> [ok |-> TRUE, method |-> "POST"]
    [] method = S_PUT -> [ok |-> TRUE, method |-> "PUT"]
    [] method = S_DELETE -> [ok |-> TRUE, method |-> "DELETE"]
    [] OTHER -> [ok |-> FALSE, method |-> "GET"]

\* Into<usize> for Status, for the statuses the library and the handlers here use.
status_code(status) ==
  CASE status = "OK" -> 200
    [] status = "BadRequest" -> 400
    [] status = "NotFound" -> 404
    [] status = "RequestTimeout" -> 408
    [] status = "UpgradeRequired" -> 426
    [] status = "InternalServerError" -> 500
    [] status = "NotImplemented" -> 501
    [] status = "HttpVersionNotSupported" -> 505

\* Status::get_status_text
get_status_text(status) ==
  CASE status = "OK" -> <<"O", "K">>
    [] status = "BadRequest" -> <<"B", "a", "d", " ", "R", "e", "q", "u", "e", "s", "t">>
    [] status = "NotFound" -> <<"N", "o", "t", " ", "F", "o", "u", "n", "d">>
    [] status = "RequestTimeout" ->
         <<"R", "e", "q", "u", "e", "s", "t", " ", "T", "i", "m", "e", "o", "u", "t">>
    [] status = "UpgradeRequired" ->
         <<"U", "p", "g", "r", "a", "d", "e", " ", "R", "e", "q", "u", "i", "r", "e", "d">>
    [] status = "InternalServerError" ->
         <<"I", "n", "t", "e", "r", "n", "a", "l", " ", "S", "e", "r", "v", "e", "r", " ",
           "E", "r", "r", "o", "r">>
    [] status = "NotImplemented" ->
         <<"N", "o", "t", " ", "I", "m", "p", "l", "e", "m", "e", "n", "t", "e", "d">>
    [] status = "HttpVersionNotSupported" ->
         <<"H", "T", "T", "P", " ", "V", "e", "r", "s", "i", "o", "n", " ", "N", "o", "t", " ",
           "S", "u", "p", "p", "o", "r", "t", "e", "d">>

\* Display for Status: "<code> <text>", the space only before a non-empty text.
Status_fmt(status) ==
  DecString(status_code(status))
    \o (IF get_status_text(status) # <<>> THEN <<" ">> ELSE <<>>)
    \o get_status_text(status)

\* Target::decode_url: the pieces between "%" signs, each piece after the first with
\* its two leading hex digits replaced by the character of that code; the pieces are
\* joined with the empty string.
decode_piece(str_to_decode) ==
  IF /\ Len(str_to_decode) >= 2
     /\ IsHexDigit(str_to_decode[1])
     /\ IsHexDigit(str_to_decode[2])
    THEN <<CharFromCode(16 * HexVal(str_to_decode[1]) + HexVal(str_to_decode[2]))>>
           \o SubSeq(str_to_decode, 3, Len(str_to_decode))
    ELSE str_to_decode

decode_url(encoded_url) ==
  LET pieces == split(encoded_url, <<"%">>) IN
    pieces[1] \o Concat([i \in 1..(Len(pieces) - 1) |-> decode_piece(pieces[i + 1])])

\* The query loop of Target::new: every "name=value" piece is inserted, the others dropped.
RECURSIVE insert_queries(_, _)
insert_queries(queries, queries_split) ==
  IF queries_split = <<>> THEN queries
  ELSE LET q == split_once(Head(queries_split), <<"=">>) IN
         insert_queries(IF q.ok THEN MapInsert(queries, q.left, q.right) ELSE queries,
                        Tail(queries_split))

\* Target::new
Target_new(target) ==
  LET target_string == decode_url(target)
      parts == split_once(target_string, <<"?">>)
      absolute_path == IF parts.ok THEN parts.left ELSE target_string
      queries_str == IF parts.ok THEN parts.right ELSE <<>>
  IN [target_path |-> <<>>,
      relative_path |-> absolute_path,
      queries |-> IF queries_str # <<>>
                    THEN insert_queries(EmptyMap, split(queries_str, <<"&">>))
                    ELSE EmptyMap]

\* Target::full_url
full_url(target) == target.target_path \o target.relative_path

\* Display for Target: the full URL, then the queries in the map's iteration order
\* ord, each as "name: value&", with "?" put in front and the last "&" taken off.
Target_fmt(target, ord) ==
  LET queries_string ==
        Concat([i \in 1..Len(ord) |->
                  ord[i] \o <<":", " ">> \o target.queries[ord[i]] \o <<"&">>])
  IN full_url(target)
       \o (IF queries_string # <<>>
             THEN <<"?">> \o SubSeq(queries_string, 1, Len(queries_string) - 1)
             ELSE <<>>)

(***************************************************************************)
(* Wire primitives and header parsing (utils.rs)                           *)
(***************************************************************************)
\* read_line, run over the bytes the socket has: "line" when a "\n" directly after a
\* "\r" was read (the line is what precedes the CRLF), "none" when a "\n" arrives
\* while the line is still empty (the ? on chars().last()), "more" when the bytes
\* ran out first (temp_string is kept and the read is retried).
RECURSIVE read_line(_, _)
read_line(temp_string, bytes) ==
  IF bytes = <<>> THEN [kind |-> "more", line |-> temp_string, rest |-> <<>>]
  ELSE LET char_read == Head(bytes) IN
         IF char_read = "\n" /\ temp_string = <<>>
           THEN [kind |-> "none", line |-> temp_string, rest |-> Tail(bytes)]
         ELSE IF char_read = "\n" /\ temp_string[Len(temp_string)] = "\r"
           THEN [kind |-> "line",
                 line |-> SubSeq(temp_string, 1, Len(temp_string) - 1),
                 rest |-> Tail(bytes)]
         ELSE read_line(Append(temp_string, char_read), Tail(bytes))

\* A header parser that takes a line without a colon as a name with an empty value;
\* C13 must tell the two apart.
parse_header_line_lenient(headers, line) ==
  LET h == split_once(line, <<":">>) IN
    IF h.ok
      THEN [ok |-> TRUE, headers |-> MapInsert(headers, to_lowercase(h.left), trim(h.right))]
      ELSE [ok |-> TRUE, headers |-> MapInsert(headers, to_lowercase(line), <<>>)]

\* parse_header_line: split once on ":", name lowercased, value trimmed.
parse_header_line(headers, line) ==
  LET h == split_once(line, <<":">>) IN
    IF h.ok
      THEN [ok |-> TRUE, headers |-> MapInsert(headers, to_lowercase(h.left), trim(h.right))]
      ELSE [ok |-> FALSE, headers |-> headers]

\* format_time(SystemTime::now()): one fixed instant stands for the clock's reading.
format_time ==
  <<"S", "u", "n", ",", " ", "0", "6", " ", "N", "o", "v", " ", "1", "9", "9", "4", " ",
    "0", "8", ":", "4", "9", ":", "3", "7", " ", "G", "M", "T">>

(***************************************************************************)
(* Cookie (structs.rs), for cookies that carry no attribute                *)
(***************************************************************************)
\* A sanitiser that leaves a quoted value's quotes to the replacement; C25 must tell
\* the two apart.
replace_with_whitespace_keep_quotes(string, is_value) ==
  [i \in 1..Len(string) |->
     LET x == string[i] IN
       IF x \in {" ", "\t", "\"", ",", ";", "/"} THEN "_"
       ELSE IF x \in {"(", ")", "<", ">", "@", "\\", "[", "]", "?", "=", "{", "}"}
         THEN (IF is_value THEN x ELSE "_")
       ELSE x]

\* Cookie::replace_with_whitespace
replace_with_whitespace(string, is_value) ==
  LET unquoted ==
        IF /\ Len(string) >= 2
           /\ is_value
           /\ string[1] = "\""
           /\ string[Len(string)] = "\""
          THEN SubSeq(string, 2, Len(string) - 1)
          ELSE string
  IN [i \in 1..Len(unquoted) |->
        LET x == unquoted[i] IN
          IF x \in {" ", "\t", "\"", ",", ";", "/"} THEN "_"
          ELSE IF x \in {"(", ")", "<", ">", "@", "\\", "[", "]", "?", "=", "{", "}"}
            THEN (IF is_value THEN x ELSE "_")
          ELSE x]

\* Cookie::new
Cookie_new(name, value) ==
  [name |-> replace_with_whitespace(name, FALSE),
   value |-> replace_with_whitespace(value, TRUE)]

\* Display for Cookie: with no attribute the attribute text is empty.
Cookie_fmt(cookie) == cookie.name \o <<"=">> \o cookie.value

(***************************************************************************)
(* Response (lib.rs).  The writer operators take and return a pair         *)
(* [r |-> the Response, w |-> the writes made on the stream so far]; ord   *)
(* is the order in which the header map and the cookie set are iterated.   *)
(***************************************************************************)
\* Response::new
Response_new ==
  [status |-> "OK",
   version |-> VERSION,
   sent_status |-> FALSE,
   headers |-> MapInsert(MapInsert(EmptyMap, S_Transfer_Encoding, S_chunked),
                         S_Date, format_time),
   sent_headers |-> FALSE,
   cookies |-> {}]

\* The iteration orders of a Response's headers and cookies.
ResponseOrders(r) == [h : Orders(DOMAIN r.headers), c : Orders(r.cookies)]

\* A status setter that does not look at sent_status; C20 must tell the two apart.
status_unguarded(rw, new_status) == [rw EXCEPT !.r.status = new_status]

\* Response::status
status(rw, new_status) ==
  IF ~rw.r.sent_status THEN [rw EXCEPT !.r.status = new_status] ELSE rw

\* Response::set_cookie (HashSet::replace; cookies are equal when their names are)
set_cookie(rw, cookie) ==
  [rw EXCEPT !.r.cookies = {c \in @ : c.name # cookie.name} \cup {cookie}]

\* FORBIDDEN_HEADERS, lowercased as set_header compares them
FORBIDDEN_HEADERS ==
  {S_transfer_encoding, S_content_length, S_connection, S_keep_alive,
   <<"s", "e", "t", "-", "c", "o", "o", "k", "i", "e">>,
   <<"d", "a", "t", "e">>, S_host}

\* A set_header that compares the name as written; C23 must tell the two apart.
set_header_case_sensitive(rw, name, value) ==
  IF name \notin FORBIDDEN_HEADERS
    THEN [rw EXCEPT !.r.headers = MapInsert(@, name, value)]
    ELSE rw

\* Response::set_header
set_header(rw, name, value) ==
  IF to_lowercase(name) \notin FORBIDDEN_HEADERS
    THEN [rw EXCEPT !.r.headers = MapInsert(@, name, value)]
    ELSE rw

\* Response::send_status
send_status(rw) ==
  IF ~rw.r.sent_status
    THEN [r |-> [rw.r EXCEPT !.sent_status = TRUE],
          w |-> Append(rw.w, Version_fmt(rw.r.version) \o <<" ">>
                               \o Status_fmt(rw.r.status) \o CRLF)]
    ELSE rw

\* A header writer that does not look at sent_headers; C19 must tell the two apart.
send_headers_unguarded(rw, ord) ==
  LET s == send_status(rw) IN
    [r |-> [s.r EXCEPT !.sent_headers = TRUE],
     w |-> s.w
             \o [i \in 1..Len(ord.h) |->
                   ord.h[i] \o <<":", " ">> \o rw.r.headers[ord.h[i]] \o CRLF]
             \o [i \in 1..Len(ord.c) |->
                   <<"S", "e", "t", "-", "C", "o", "o", "k", "i", "e", ":", " ">>
                     \o Cookie_fmt(ord.c[i]) \o <<"\n">>]
             \o <<CRLF>>]

\* Response::send_headers
send_headers(rw, ord) ==
  IF ~rw.r.sent_headers
    THEN LET s == send_status(rw) IN
           [r |-> [s.r EXCEPT !.sent_headers = TRUE],
            w |-> s.w
                    \o [i \in 1..Len(ord.h) |->
                          ord.h[i] \o <<":", " ">> \o rw.r.headers[ord.h[i]] \o CRLF]
                    \o [i \in 1..Len(ord.c) |->
                          <<"S", "e", "t", "-", "C", "o", "o", "k", "i", "e", ":", " ">>
                            \o Cookie_fmt(ord.c[i]) \o <<"\n">>]
                    \o <<CRLF>>]
    ELSE rw

\* format!("{:x}", n)
RECURSIVE HexString(_)
HexString(n) ==
  LET d(k) == IF k < 10 THEN CharFromCode(48 + k) ELSE CharFromCode(87 + k) IN
    IF n < 16 THEN <<d(n)>> ELSE HexString(n \div 16) \o <<d(n % 16)>>

\* A chunk writer that gives the length in decimal; C22 must tell the two apart.
send_chunk_decimal_length(rw, chunk_data, ord) ==
  IF chunk_data # <<>>
    THEN LET s == send_headers(rw, ord) IN
           [s EXCEPT !.w = @ \o <<DecString(Len(chunk_data)) \o CRLF, chunk_data, CRLF>>]
    ELSE rw

\* A chunk writer that does not test the data for emptiness; C21 must tell the two
\* apart.
send_chunk_also_empty(rw, chunk_data, ord) ==
  LET s == send_headers(rw, ord) IN
    [s EXCEPT !.w = @ \o <<HexString(Len(chunk_data)) \o CRLF, chunk_data, CRLF>>]

\* Response::send_chunk
send_chunk(rw, chunk_data, ord) ==
  IF chunk_data # <<>>
    THEN LET s == send_headers(rw, ord) IN
           [s EXCEPT !.w = @ \o <<HexString(Len(chunk_data)) \o CRLF, chunk_data, CRLF>>]
    ELSE rw

\* Response::end_chunked
end_chunked(rw, ord) ==
  LET s == send_headers(rw, ord) IN [s EXCEPT !.w = Append(@, S_LastChunk)]

\* Response::send
send(rw, message, ord) == send_chunk(rw, message, ord)

\* Response::end
end(rw, ord) == end_chunked(rw, ord)

\* Response::end_with
end_with(rw, message, ord) == end(send(rw, message, ord), ord)

\* Response::quick: the writes of a fresh Response ended with the given status.
quick(wire, new_status, ord) ==
  end(status([r |-> Response_new, w |-> wire], new_status), ord).w

(***************************************************************************)
(* Connection and the driver's checks (lib.rs)                             *)
(***************************************************************************)
\* Connection::new: timeout (seconds)
DefaultTimeout == 60

\* Connection::new: max_requests
DefaultMaxRequests == 5

\* handle_headers: the largest "max" a client may ask for
MaxRequestsLimit == 20

\* Connection::new
Connection_new ==
  [close |-> FALSE,
   timeout |-> DefaultTimeout,
   max_requests |-> DefaultMaxRequests,
   requests_received |-> 0]

\* A Host check that lets every request through; C11 must tell the two apart.
has_host_unchecked(headers) == TRUE

\* handle_connection: request.headers.contains_key("host")
has_host(headers) == S_host \in DOMAIN headers

\* A count check that lets every request through; C40 must tell the two apart.
over_limit_never(conn) == FALSE

\* A count check that is off by one (>= where the code has >); C6 must tell the two apart.
over_limit_off_by_one(conn) == conn.requests_received >= conn.max_requests

\* handle_connection: the request-count check after requests_received += 1
over_limit(conn) == conn.requests_received > conn.max_requests

\* A version check with the two minor-version replies exchanged; C10 must tell the
\* two apart.
version_check_exchanged(version) ==
  IF version.major # VERSION.major THEN "HttpVersionNotSupported"
  ELSE IF version.minor > VERSION.minor THEN "UpgradeRequired"
  ELSE IF version.minor < VERSION.minor THEN "BadRequest"
  ELSE "supported"

\* handle_connection: 'version_check; the status to reply with, or "supported"
version_check(version) ==
  IF version.major # VERSION.major THEN "HttpVersionNotSupported"
  ELSE IF version.minor > VERSION.minor THEN "BadRequest"
  ELSE IF version.minor < VERSION.minor THEN "UpgradeRequired"
  ELSE "supported"

\* A Keep-Alive match that takes any timeout the client names; C8 must tell the two
\* apart.
keep_alive_param_any_timeout(conn, param_name, param_int_value) ==
  CASE param_name = S_timeout -> [conn EXCEPT !.timeout = param_int_value]
    [] param_name = S_max ->
         IF param_int_value <= MaxRequestsLimit
           THEN [conn EXCEPT !.max_requests = param_int_value]
           ELSE conn
    [] OTHER -> conn

\* A Keep-Alive match that takes any max the client names; C37 must tell the two apart.
keep_alive_param_any_max(conn, param_name, param_int_value) ==
  CASE param_name = S_timeout ->
         IF param_int_value <= conn.timeout
           THEN [conn EXCEPT !.timeout = param_int_value]
           ELSE conn
    [] param_name = S_max -> [conn EXCEPT !.max_requests = param_int_value]
    [] OTHER -> conn

\* handle_headers: the match on one Keep-Alive parameter name
keep_alive_param(conn, param_name, param_int_value) ==
  CASE param_name = S_timeout ->
         IF param_int_value <= conn.timeout
           THEN [conn EXCEPT !.timeout = param_int_value]
           ELSE conn
    [] param_name = S_max ->
         IF param_int_value <= MaxRequestsLimit
           THEN [conn EXCEPT !.max_requests = param_int_value]
           ELSE conn
    [] OTHER -> conn

\* A Keep-Alive loop that lets every parameter pass; C30 must tell the two apart.
keep_alive_lenient(conn, parameters) == [ok |-> TRUE, conn |-> conn]

\* handle_headers: the loop over value.split(","); the first parameter that is not
\* "name=<usize>" ends it with Err(BadRequest), the earlier ones staying applied.
RECURSIVE keep_alive(_, _)
keep_alive(conn, parameters) ==
  IF parameters = <<>> THEN [ok |-> TRUE, conn |-> conn]
  ELSE LET p == split_once(Head(parameters), <<"=">>)
           param_int_value == parse_usize(p.right)
       IN IF p.ok /\ param_int_value.ok
            THEN keep_alive(keep_alive_param(conn, p.left, param_int_value.val),
                            Tail(parameters))
            ELSE [ok |-> FALSE, conn |-> conn]

\* A match that compares the Connection value as it was sent; C29 must tell the two
\* apart.
handle_header_value_as_sent(conn, name, value) ==
  CASE to_lowercase(name) = S_connection ->
         [ok |-> TRUE,
          conn |-> IF value = S_close THEN [conn EXCEPT !.close = TRUE] ELSE conn]
    [] to_lowercase(name) = S_keep_alive ->
         keep_alive(conn, split(to_lowercase(value), <<",">>))
    [] OTHER -> [ok |-> TRUE, conn |-> conn]

\* handle_headers: the match on one header, name and value lowercased
handle_header(conn, name, value) ==
  CASE to_lowercase(name) = S_connection ->
         [ok |-> TRUE,
          conn |-> IF to_lowercase(value) = S_close THEN [conn EXCEPT !.close = TRUE] ELSE conn]
    [] to_lowercase(name) = S_keep_alive ->
         keep_alive(conn, split(to_lowercase(value), <<",">>))
    [] OTHER -> [ok |-> TRUE, conn |-> conn]

\* handle_headers: the headers are visited in the map's iteration order `names`
RECURSIVE handle_headers(_, _, _)
handle_headers(conn, headers, names) ==
  IF names = <<>> THEN [ok |-> TRUE, conn |-> conn]
  ELSE LET one == handle_header(conn, Head(names), headers[Head(names)]) IN
         IF one.ok THEN handle_headers(one.conn, headers, Tail(names)) ELSE one

(***************************************************************************)
(* Routing (lib.rs, handle_connection).  A handler is                      *)
(* [sel |-> "Directory" | "Specific" | "Any", method, cb]; cb names the     *)
(* callback.  The outcome is "invoke" (with the target the handler gets),  *)
(* "continue" (the loop goes on with no handler run) or "not_found".       *)
(***************************************************************************)
\* An exact-match pass that goes on to the next entry when a Specific entry's method
\* differs; C33 must tell the two apart.
RECURSIVE exact_pass_next_selector(_, _)
exact_pass_next_selector(list, req) ==
  IF list = <<>> THEN [kind |-> "not_found", cb |-> "", target |-> req.target]
  ELSE LET handler == Head(list) IN
         CASE handler.sel = "Specific" ->
                IF req.method = handler.method
                  THEN [kind |-> "invoke", cb |-> handler.cb, target |-> req.target]
                  ELSE exact_pass_next_selector(Tail(list), req)
           [] handler.sel = "Any" ->
                [kind |-> "invoke", cb |-> handler.cb, target |-> req.target]
           [] OTHER -> exact_pass_next_selector(Tail(list), req)

\* The exact-match pass: the for loop over handlers[full_url]
RECURSIVE exact_pass(_, _)
exact_pass(list, req) ==
  IF list = <<>> THEN [kind |-> "not_found", cb |-> "", target |-> req.target]
  ELSE LET handler == Head(list) IN
         CASE handler.sel = "Specific" ->
                IF req.method = handler.method
                  THEN [kind |-> "invoke", cb |-> handler.cb, target |-> req.target]
                  ELSE [kind |-> "continue", cb |-> "", target |-> req.target]
           [] handler.sel = "Any" ->
                [kind |-> "invoke", cb |-> handler.cb, target |-> req.target]
           [] OTHER -> exact_pass(Tail(list), req)

\* handlers.iter().find(|h| matches!(h.0, HandlerMethod::Directory)): its position, or 0
find_directory(list) ==
  IF \E i \in 1..Len(list) : list[i].sel = "Directory"
    THEN CHOOSE i \in 1..Len(list) :
           list[i].sel = "Directory" /\ \A j \in 1..(i - 1) : list[j].sel # "Directory"
    ELSE 0

\* str::split_at(n).1 (split_at panics when n exceeds the length)
split_at_tail(s, n) == SubSeq(s, n + 1, Len(s))

\* The prefix-match pass: the for loop over the path sections after the first
RECURSIVE prefix_pass(_, _, _, _)
prefix_pass(table, path_sections, path_string, req) ==
  IF path_sections = <<>> THEN [kind |-> "not_found", cb |-> "", target |-> req.target]
  ELSE LET next_string == path_string \o <<"/">> \o Head(path_sections) IN
         IF next_string \in DOMAIN table /\ find_directory(table[next_string]) # 0
           THEN IF Len(next_string) > Len(req.target.relative_path)
                  THEN [kind |-> "panic", cb |-> "", target |-> req.target]
                  ELSE [kind |-> "invoke",
                        cb |-> table[next_string][find_directory(table[next_string])].cb,
                        target |-> [req.target EXCEPT
                                      !.target_path = next_string,
                                      !.relative_path =
                                        split_at_tail(req.target.relative_path,
                                                      Len(next_string))]]
           ELSE prefix_pass(table, Tail(path_sections), next_string, req)

\* handle_connection: the exact-match pass when the table has the full URL as a key,
\* the prefix-match pass only when it has not.
route(table, req) ==
  IF full_url(req.target) \in DOMAIN table
    THEN exact_pass(table[full_url(req.target)], req)
    ELSE prefix_pass(table, Tail(split(full_url(req.target), <<"/">>)), <<>>, req)

(***************************************************************************)
(* Request::new (lib.rs): the parsing done between the reads               *)
(***************************************************************************)
\* read_bytes, run over the bytes the socket has: "done" when temp_vec reaches
\* bytes_to_read right after a push (never for bytes_to_read = 0), "more" when the
\* bytes ran out first.
RECURSIVE read_bytes(_, _, _)
read_bytes(temp_vec, bytes, bytes_to_read) ==
  IF bytes = <<>> THEN [kind |-> "more", vec |-> temp_vec, rest |-> <<>>]
  ELSE LET pushed == Append(temp_vec, Head(bytes)) IN
         IF Len(pushed) = bytes_to_read
           THEN [kind |-> "done", vec |-> pushed, rest |-> Tail(bytes)]
           ELSE read_bytes(pushed, Tail(bytes), bytes_to_read)

\* A first-line match that answers an unknown method with 400; C12 must tell the two
\* apart.
request_line_unknown_method_400(first_line) ==
  LET splitted == split_whitespace(first_line)
      fail(s) == [ok |-> FALSE, status |-> s, method |-> "GET",
                  target |-> Target_new(<<>>), version |-> VERSION]
  IN IF Len(splitted) = 3
       THEN IF ~Method_new(splitted[1]).ok THEN fail("BadRequest")
            ELSE IF ~Version_new(splitted[3]).ok THEN fail("BadRequest")
            ELSE [ok |-> TRUE, status |-> "OK",
                  method |-> Method_new(splitted[1]).method,
                  target |-> Target_new(splitted[2]),
                  version |-> [major |-> Version_new(splitted[3]).major,
                               minor |-> Version_new(splitted[3]).minor]]
       ELSE fail("BadRequest")

\* The match on the split first line: the status to reply with when it fails.
request_line(first_line) ==
  LET splitted == split_whitespace(first_line)
      fail(s) == [ok |-> FALSE, status |-> s, method |-> "GET",
                  target |-> Target_new(<<>>), version |-> VERSION]
  IN IF Len(splitted) = 3
       THEN IF ~Method_new(splitted[1]).ok THEN fail("NotImplemented")
            ELSE IF ~Version_new(splitted[3]).ok THEN fail("BadRequest")
            ELSE [ok |-> TRUE, status |-> "OK",
                  method |-> Method_new(splitted[1]).method,
                  target |-> Target_new(splitted[2]),
                  version |-> [major |-> Version_new(splitted[3]).major,
                               minor |-> Version_new(splitted[3]).minor]]
       ELSE fail("BadRequest")

\* The cookie loop: the "cookie" header split on "; ", every "name=value" inserted.
RECURSIVE insert_cookies(_, _)
insert_cookies(cookies, items) ==
  IF items = <<>> THEN cookies
  ELSE LET c == split_once(Head(items), <<"=">>) IN
         insert_cookies(IF c.ok THEN MapInsert(cookies, c.left, c.right) ELSE cookies,
                        Tail(items))

parse_cookies(headers) ==
  IF S_cookie \in DOMAIN headers
    THEN insert_cookies(EmptyMap, split(headers[S_cookie], <<";", " ">>))
    ELSE EmptyMap

\* What follows the header block: "chunked", "bad_encoding" (400), "length" with the
\* parsed Content-Length, "bad_length" (400), or "none".
decide_body(headers) ==
  IF S_transfer_encoding \in DOMAIN headers
    THEN IF headers[S_transfer_encoding] = S_chunked
           THEN [kind |-> "chunked", n |-> 0]
           ELSE [kind |-> "bad_encoding", n |-> 0]
  ELSE IF S_content_length \in DOMAIN headers
    THEN IF parse_usize(headers[S_content_length]).ok
           THEN [kind |-> "length", n |-> parse_usize(headers[S_content_length]).val]
           ELSE [kind |-> "bad_length", n |-> 0]
  ELSE [kind |-> "none", n |-> 0]

\* The value of a run of hex digits.
RECURSIVE HexValue(_)
HexValue(s) ==
  IF s = <<>> THEN 0
  ELSE 16 * HexValue(SubSeq(s, 1, Len(s) - 1)) + HexVal(s[Len(s)])

\* usize::from_str_radix(s, 16): an optional "+" and then one or more hex digits.
parse_hex_usize(s) ==
  LET d == IF s # <<>> /\ s[1] = "+" THEN Tail(s) ELSE s IN
    IF d # <<>> /\ \A i \in 1..Len(d) : IsHexDigit(d[i])
      THEN [ok |-> TRUE, val |-> HexValue(d)]
      ELSE [ok |-> FALSE, val |-> 0]

\* The chunk-size line: split_once(";")? and then from_str_radix(.., 16).ok()?
chunk_size_line(length_line) ==
  LET p == split_once(length_line, <<";">>) IN
    IF p.ok /\ parse_hex_usize(p.left).ok
      THEN [ok |-> TRUE, chunk_length |-> parse_hex_usize(p.left).val]
      ELSE [ok |-> FALSE, chunk_length |-> 0]

(***************************************************************************)
(* Handlers registered before start, and what the callbacks do             *)
(***************************************************************************)
P_ping == <<"/", "p", "i", "n", "g">>
P_a == <<"/", "a">>
P_www == <<"/", "w", "w", "w">>
P_www_etc == <<"/", "w", "w", "w", "/", "e", "t", "c">>
D_pong == <<"p", "o", "n", "g">>
D_hi == <<"h", "i">>

\* Server::on, on_get, on_post, on_directory: the entry append_handler pushes
on(cb) == [sel |-> "Any", method |-> "", cb |-> cb]

on_get(cb) == [sel |-> "Specific", method |-> "GET", cb |-> cb]

on_post(cb) == [sel |-> "Specific", method |-> "POST", cb |-> cb]

on_directory(cb) == [sel |-> "Directory", method |-> "", cb |-> cb]

\* Server::append_handler: push on the path's list, or insert a new list
append_handler(table, path, handler) ==
  IF path \in DOMAIN table
    THEN [table EXCEPT ![path] = Append(@, handler)]
    ELSE MapInsert(table, path, <<handler>>)

\* The calls a callback makes on its Response, in order:
\*   "pong" ends with a body (the /ping handler of the crate's quick start),
\*   "send" sends a chunk and returns without ending (examples/showcase.rs, /test),
\*   "not_found" sets a status and ends (handlers.rs, read_file's error branch),
\*   "nothing" returns at once.
Callback(cb) ==
  CASE cb = "pong" -> <<[op |-> "end_with", a |-> D_pong]>>
    [] cb = "send" -> <<[op |-> "send", a |-> D_hi]>>
    [] cb = "not_found" -> <<[op |-> "status", a |-> "NotFound"], [op |-> "end", a |-> <<>>]>>
    [] cb = "nothing" -> <<>>

\* The handler tables the server is started with.
HandlerTables ==
  { append_handler(append_handler(EmptyMap, P_ping, on("pong")), P_a, on_get("pong")),
    append_handler(append_handler(EmptyMap, P_www, on_directory("pong")), P_ping, on("send")),
    append_handler(append_handler(append_handler(EmptyMap,
        P_a, on_post("not_found")), P_a, on("pong")), P_ping, on("nothing")),
    append_handler(append_handler(append_handler(EmptyMap,
        P_www_etc, on_directory("send")), P_www, on("pong")), P_www, on_directory("pong")) }

(***************************************************************************)
(* What a client may send                                                  *)
(***************************************************************************)
V_11 == <<"H", "T", "T", "P", "/", "1", ".", "1">>
V_20 == <<"H", "T", "T", "P", "/", "2", ".", "0">>
V_10 == <<"H", "T", "T", "P", "/", "1", ".", "0">>
V_12 == <<"H", "T", "T", "P", "/", "1", ".", "2">>
T_main == <<"/", "w", "w", "w", "/", "e", "t", "c", "/", "m", "a", "i", "n", ".", "t", "x", "t">>
T_noslash == <<"x", "/", "w", "w", "w">>
T_none == <<"/", "n", "o", "n", "e">>
H_Host == <<"H", "o", "s", "t", ":", " ", "x">>
H_HOST == <<"H", "O", "S", "T", ":", " ", "x">>
H_Close == <<"C", "o", "n", "n", "e", "c", "t", "i", "o", "n", ":", " ", "C", "l", "o", "s", "e">>
KA_30_3 == <<"t", "i", "m", "e", "o", "u", "t", "=", "3", "0", ",", " ", "m", "a", "x", "=", "3">>
KA_30_3_tight == <<"t", "i", "m", "e", "o", "u", "t", "=", "3", "0", ",", "m", "a", "x", "=", "3">>
KA_90 == <<"t", "i", "m", "e", "o", "u", "t", "=", "9", "0">>
KA_bad == <<"m", "a", "x", "=", "x">>
KA_bad_second == <<"t", "i", "m", "e", "o", "u", "t", "=", "5", ",", "m", "a", "x">>
H_KeepAlive ==
  <<"C", "o", "n", "n", "e", "c", "t", "i", "o", "n", ":", " ",
    "K", "e", "e", "p", "-", "A", "l", "i", "v", "e">>

KeepAliveHeader(value) ==
  <<"K", "e", "e", "p", "-", "A", "l", "i", "v", "e", ":", " ">> \o value

ContentLengthHeader(value) ==
  <<"C", "o", "n", "t", "e", "n", "t", "-", "L", "e", "n", "g", "t", "h", ":", " ">> \o value

TransferEncodingHeader(value) ==
  <<"T", "r", "a", "n", "s", "f", "e", "r", "-", "E", "n", "c", "o", "d", "i", "n", "g", ":", " ">>
    \o value

\* A request: the request line, the header lines, the empty line, the body bytes.
Message(method, target, version, header_lines, body_bytes) ==
  method \o <<" ">> \o target \o <<" ">> \o version \o CRLF
    \o Concat([i \in 1..Len(header_lines) |-> header_lines[i] \o CRLF])
    \o CRLF \o body_bytes

\* Requests with a supported method, HTTP/1.1, a Host header and no body.
PlainRequests ==
  { Message(S_GET, t, V_11, <<H_Host>> \o h, <<>>) :
      t \in {P_ping, P_a, P_www, T_main, T_noslash, T_none},
      h \in {<<>>, <<H_Close>>, <<KeepAliveHeader(KA_30_3)>>,
             <<KeepAliveHeader(KA_30_3_tight)>>, <<KeepAliveHeader(KA_90)>>} }
    \cup { Message(S_POST, t, V_11, <<H_Host>>, <<>>) : t \in {P_a, P_www} }
    \cup { Message(S_GET, P_ping, V_11, <<H_HOST>>, <<>>),
           Message(S_GET, P_ping, V_11, <<H_Host, H_KeepAlive>>, <<>>),
           Message(S_GET, P_ping, V_11, <<H_Host, H_Close>>, <<>>)
             \o Message(S_GET, P_ping, V_11, <<H_Host>>, <<>>) }

\* Requests with a body, well framed and not.
BodyRequests ==
  { Message(S_POST, P_a, V_11, <<H_Host, ContentLengthHeader(<<"2">>)>>, D_hi),
    Message(S_POST, P_a, V_11, <<H_Host, ContentLengthHeader(<<"5">>)>>, D_hi),
    Message(S_POST, P_a, V_11, <<H_Host, ContentLengthHeader(<<"x">>)>>, <<>>),
    Message(S_POST, P_a, V_11, <<H_Host, TransferEncodingHeader(<<"g", "z", "i", "p">>)>>, <<>>),
    Message(S_POST, P_a, V_11, <<H_Host, TransferEncodingHeader(S_chunked)>>,
            <<"2", ";", "x">> \o CRLF \o D_hi \o CRLF \o <<"0", ";", "x">> \o CRLF
              \o CRLF \o CRLF),
    Message(S_POST, P_a, V_11, <<H_Host, TransferEncodingHeader(S_chunked)>>,
            <<"2">> \o CRLF \o D_hi \o CRLF \o <<"0">> \o CRLF \o CRLF),
    Message(S_POST, P_a, V_11, <<H_Host, TransferEncodingHeader(S_chunked)>>,
            <<"2", ";", "x">> \o CRLF \o <<"h">>),
    Message(S_POST, P_a, V_11, <<H_Host, TransferEncodingHeader(S_chunked)>>,
            <<"0", ";", "x">> \o CRLF),
    Message(S_POST, P_a, V_11, <<H_Host, TransferEncodingHeader(S_chunked)>>,
            <<"z", ";", "x">> \o CRLF),
    Message(S_POST, P_a, V_11,
            <<H_Host, TransferEncodingHeader(<<"C", "h", "u", "n", "k", "e", "d">>)>>,
            <<"0", ";", "x">> \o CRLF \o CRLF \o CRLF),
    Message(S_POST, P_a, V_11, <<H_Host, ContentLengthHeader(<<"0">>)>>,
            Message(S_GET, P_ping, V_11, <<H_Host>>, <<>>)) }

\* Requests the server must refuse, and requests cut short.
BadRequests ==
  { Message(<<"B", "R", "E", "W">>, P_ping, V_11, <<H_Host>>, <<>>),
    Message(<<"B", "R", "E", "W">>, P_ping, <<"H", "T", "T", "P", "/", "x">>, <<H_Host>>, <<>>),
    S_GET \o <<" ">> \o P_ping \o CRLF \o CRLF,
    Message(S_GET, P_ping, <<"H", "T", "T", "P", "/", "1">>, <<H_Host>>, <<>>),
    Message(S_GET, P_ping, V_20, <<H_Host>>, <<>>),
    Message(S_GET, P_ping, V_20, <<>>, <<>>),
    Message(S_GET, P_ping, V_10, <<H_Host>>, <<>>),
    Message(S_GET, P_ping, V_12, <<H_Host>>, <<>>),
    Message(S_GET, P_ping, V_11, <<>>, <<>>),
    Message(S_GET, P_ping, V_11, <<<<"H", "o", "s", "t", " ", "x">>>>, <<>>),
    Message(S_GET, P_ping, V_11, <<H_Host, KeepAliveHeader(KA_bad)>>, <<>>),
    Message(S_GET, P_ping, V_11, <<H_Host, KeepAliveHeader(KA_bad_second)>>, <<>>),
    <<"\n">> \o Message(S_GET, P_ping, V_11, <<H_Host>>, <<>>),
    S_GET \o <<" ">> \o P_ping,
    S_GET \o <<" ">> \o P_ping \o <<" ">> \o V_11 \o CRLF \o H_Host \o CRLF }

ClientMessages == PlainRequests \cup BodyRequests \cup BadRequests

(***************************************************************************)
(* The state of one connection worker                                      *)
(***************************************************************************)
VARIABLES
  handlers,     \* Server.handlers: path -> list of handlers, fixed once started
  input,        \* bytes received on the socket and not yet read
  eof,          \* the peer has closed its side: a read with no byte left returns 0
  pc,           \* where the worker is in handle_connection / Request::new
  temp_string,  \* read_line's temp_string
  temp_vec,     \* read_bytes's temp_vec (body reads)
  builder,      \* the locals of Request::new
  request,      \* the Request the driver got from Request::new in this iteration
  connection,   \* the Connection's close, timeout, max_requests, requests_received
  idle,         \* seconds elapsed since connection.inactive_since
  wire,         \* the writes made on the stream since this iteration began
  invoked,      \* the callbacks run in this iteration
  called,       \* the calls the running callback has made on its Response
  response,     \* the Response the running callback holds
  script,       \* the calls the running callback has yet to make
  fn,           \* the constructor a caller outside the driver applies, "none" in the driver
  arg,          \* the strings that caller passes to it
  result,       \* what the constructor returned, once it has
  others        \* the other worker threads of the server, each as its own variables

vars ==
  <<handlers, input, eof, pc, temp_string, temp_vec, builder, request, connection,
    idle, wire, invoked, called, response, script, fn, arg, result, others>>

\* No constructor has returned yet.
NoResult == [done |-> FALSE]

\* Seconds that pass while read_bytes sleeps between two empty reads.
TickSecs == 31

\* How many 408 replies one request may collect before the model stops following it.
MaxTimeoutReplies == 2

NoBuilder ==
  [first_line |-> <<>>, method |-> "GET", target |-> Target_new(<<>>), version |-> VERSION,
   headers |-> EmptyMap, body |-> <<>>, bytes_to_read |-> 0]

NoRequest ==
  [some |-> FALSE, method |-> "GET", target |-> Target_new(<<>>), version |-> VERSION,
   headers |-> EmptyMap, cookies |-> EmptyMap, body |-> <<>>]

\* Some(Self { method, target, version, body, headers, cookies })
BuiltRequest(b) ==
  [some |-> TRUE, method |-> b.method, target |-> b.target, version |-> b.version,
   headers |-> b.headers, cookies |-> parse_cookies(b.headers), body |-> b.body]

\* The positions at which the worker is inside read_line / read_bytes.
LinePcs == {"request_line", "headers", "chunk_size", "trailers"}

BytesPcs == {"chunk_data", "chunk_end", "body"}

\* The status line a reply with this status starts with.
StatusLine(s) == Version_fmt(VERSION) \o <<" ">> \o Status_fmt(s) \o CRLF

\* The number of writes in w equal to x.
Count(w, x) == Cardinality({i \in 1..Len(w) : w[i] = x})

\* read_bytes: inactive_since.elapsed() > timeout
timed_out(conn, elapsed) == elapsed > conn.timeout

Init ==
  /\ handlers \in HandlerTables
  /\ input = <<>>
  /\ eof = FALSE
  /\ pc = "loop_head"
  /\ temp_string = <<>>
  /\ temp_vec = <<>>
  /\ builder = NoBuilder
  /\ request = NoRequest
  /\ connection = Connection_new
  /\ idle = 0
  /\ wire = <<>>
  /\ invoked = <<>>
  /\ called = <<>>
  /\ response = Response_new
  /\ script = <<>>
  /\ others = <<>>
  /\ fn = "none"
  /\ arg = <<>>
  /\ result = NoResult

(***************************************************************************)
(* The peer                                                                *)
(***************************************************************************)
\* The client sends a message while the worker waits for a request line.
ClientSend ==
  /\ pc = "request_line" /\ input = <<>> /\ temp_string = <<>> /\ ~eof
  /\ \E m \in ClientMessages : input' = m
  /\ UNCHANGED <<others, fn, arg, result, handlers, eof, pc, temp_string, temp_vec, builder, request, connection,
                 idle, wire, invoked, called, response, script>>

\* The client closes its side while the worker waits for bytes.
ClientClose ==
  /\ pc \in LinePcs \cup BytesPcs /\ input = <<>> /\ ~eof
  /\ eof' = TRUE
  /\ UNCHANGED <<others, fn, arg, result, handlers, input, pc, temp_string, temp_vec, builder, request, connection,
                 idle, wire, invoked, called, response, script>>

(***************************************************************************)
(* handle_connection                                                       *)
(***************************************************************************)
\* while !connection.close { ... }: the next iteration starts, or the loop ends.
LoopHead ==
  /\ pc = "loop_head"
  /\ IF connection.close
       THEN /\ pc' = "terminate"
            /\ UNCHANGED <<others, fn, arg, result, temp_string, temp_vec, builder, request, wire, invoked, called>>
       ELSE /\ pc' = "request_line"
            /\ temp_string' = <<>>
            /\ temp_vec' = <<>>
            /\ builder' = NoBuilder
            /\ request' = NoRequest
            /\ wire' = <<>>
            /\ invoked' = <<>>
            /\ called' = <<>>
  /\ UNCHANGED <<others, fn, arg, result, handlers, input, eof, connection, idle, response, script>>

\* read_bytes: the read returned nothing and the timeout has not passed: sleep, retry.
ReadSleep ==
  /\ pc \in LinePcs \cup BytesPcs /\ input = <<>> /\ eof
  /\ ~timed_out(connection, idle)
  /\ idle' = idle + TickSecs
  /\ UNCHANGED <<others, fn, arg, result, handlers, input, eof, pc, temp_string, temp_vec, builder, request,
                 connection, wire, invoked, called, response, script>>

\* read_bytes inside read_line: the read returned nothing and the timeout has passed.
\* read_bytes replies 408 and returns None; read_line's loop ignores the None and
\* calls read_bytes again.
ReadLineTimeout ==
  /\ pc \in LinePcs /\ input = <<>> /\ eof
  /\ timed_out(connection, idle)
  /\ Count(wire, StatusLine("RequestTimeout")) < MaxTimeoutReplies
  /\ \E ord \in ResponseOrders(Response_new) : wire' = quick(wire, "RequestTimeout", ord)
  /\ UNCHANGED <<others, fn, arg, result, handlers, input, eof, pc, temp_string, temp_vec, builder, request,
                 connection, idle, invoked, called, response, script>>

\* read_bytes called by Request::new for body bytes: the same timeout, but here the
\* None reaches Request::new: a chunk's read fails the request (?), the read of the
\* CRLF after the last chunk is ignored, a Content-Length read is answered with 500.
ReadBytesTimeout ==
  /\ pc \in BytesPcs /\ input = <<>> /\ eof
  /\ timed_out(connection, idle)
  /\ \E ord \in ResponseOrders(Response_new) :
       LET w == quick(wire, "RequestTimeout", ord) IN
         CASE pc = "chunk_data" -> wire' = w /\ pc' = "terminate"
           [] pc = "chunk_end" -> wire' = w /\ pc' = "trailers"
           [] pc = "body" ->
                /\ \E ord2 \in ResponseOrders(Response_new) :
                     wire' = quick(w, "InternalServerError", ord2)
                /\ pc' = "terminate"
  /\ temp_vec' = <<>>
  /\ UNCHANGED <<others, fn, arg, result, handlers, input, eof, temp_string, builder, request, connection, idle,
                 invoked, called, response, script>>

\* Request::new: the first line.
ReadRequestLine ==
  /\ pc = "request_line" /\ input # <<>>
  /\ LET r == read_line(temp_string, input) IN
       /\ input' = r.rest
       /\ CASE r.kind = "more" ->
                 /\ temp_string' = r.line
                 /\ UNCHANGED <<others, fn, arg, result, pc, builder, wire>>
            [] r.kind = "none" ->
                 /\ pc' = "terminate"
                 /\ UNCHANGED <<others, fn, arg, result, temp_string, builder, wire>>
            [] r.kind = "line" ->
                 LET first == request_line(r.line) IN
                   /\ temp_string' = <<>>
                   /\ IF first.ok
                        THEN /\ builder' = [builder EXCEPT !.first_line = r.line,
                                                            !.method = first.method,
                                                            !.target = first.target,
                                                            !.version = first.version]
                             /\ pc' = "headers"
                             /\ wire' = wire
                        ELSE /\ \E ord \in ResponseOrders(Response_new) :
                                  wire' = quick(wire, first.status, ord)
                             /\ pc' = "terminate"
                             /\ builder' = [builder EXCEPT !.first_line = r.line]
  /\ UNCHANGED <<others, fn, arg, result, handlers, eof, temp_vec, request, connection, idle, invoked, called, response,
                 script>>

\* Request::new: one header line, or the empty line and the decision about the body.
ReadHeaderLine ==
  /\ pc = "headers" /\ input # <<>>
  /\ LET r == read_line(temp_string, input) IN
       /\ input' = r.rest
       /\ CASE r.kind = "more" ->
                 /\ temp_string' = r.line
                 /\ UNCHANGED <<others, fn, arg, result, pc, builder, request, wire>>
            [] r.kind = "none" ->
                 /\ pc' = "terminate"
                 /\ UNCHANGED <<others, fn, arg, result, temp_string, builder, request, wire>>
            [] r.kind = "line" /\ r.line # <<>> ->
                 LET h == parse_header_line(builder.headers, r.line) IN
                   /\ temp_string' = <<>>
                   /\ builder' = [builder EXCEPT !.headers = h.headers]
                   /\ pc' = IF h.ok THEN "headers" ELSE "terminate"
                   /\ UNCHANGED <<others, fn, arg, result, request, wire>>
            [] r.kind = "line" /\ r.line = <<>> ->
                 LET d == decide_body(builder.headers) IN
                   /\ temp_string' = <<>>
                   /\ builder' = [builder EXCEPT !.bytes_to_read = d.n]
                   /\ CASE d.kind = "chunked" ->
                             pc' = "chunk_size" /\ UNCHANGED <<others, fn, arg, result, request, wire>>
                        [] d.kind = "length" ->
                             pc' = "body" /\ UNCHANGED <<others, fn, arg, result, request, wire>>
                        [] d.kind = "none" ->
                             /\ pc' = "count"
                             /\ request' = BuiltRequest(builder)
                             /\ wire' = wire
                        [] OTHER ->
                             /\ \E ord \in ResponseOrders(Response_new) :
                                  wire' = quick(wire, "BadRequest", ord)
                             /\ pc' = "terminate"
                             /\ request' = request
  /\ UNCHANGED <<others, fn, arg, result, handlers, eof, temp_vec, connection, idle, invoked, called, response, script>>

\* Request::new, chunked body: the chunk-size line.
ReadChunkSize ==
  /\ pc = "chunk_size" /\ input # <<>>
  /\ LET r == read_line(temp_string, input) IN
       /\ input' = r.rest
       /\ CASE r.kind = "more" ->
                 temp_string' = r.line /\ UNCHANGED <<others, fn, arg, result, pc, builder>>
            [] r.kind = "none" ->
                 pc' = "terminate" /\ UNCHANGED <<others, fn, arg, result, temp_string, builder>>
            [] r.kind = "line" ->
                 LET c == chunk_size_line(r.line) IN
                   /\ temp_string' = <<>>
                   /\ pc' = IF ~c.ok THEN "terminate"
                            ELSE IF c.chunk_length # 0 THEN "chunk_data" ELSE "chunk_end"
                   /\ builder' = [builder EXCEPT !.bytes_to_read =
                                    IF c.chunk_length # 0 THEN c.chunk_length + 2 ELSE 2]
  /\ UNCHANGED <<others, fn, arg, result, handlers, eof, temp_vec, request, connection, idle, wire, invoked, called,
                 response, script>>

\* Request::new, chunked body: read_bytes(chunk_length + 2); all but the last two
\* bytes join the body.
ReadChunkData ==
  /\ pc = "chunk_data" /\ input # <<>>
  /\ LET r == read_bytes(temp_vec, input, builder.bytes_to_read) IN
       /\ input' = r.rest
       /\ IF r.kind = "done"
            THEN /\ builder' = [builder EXCEPT !.body = @ \o SubSeq(r.vec, 1, Len(r.vec) - 2)]
                 /\ temp_vec' = <<>>
                 /\ pc' = "chunk_size"
            ELSE /\ temp_vec' = r.vec
                 /\ UNCHANGED <<others, fn, arg, result, pc, builder>>
  /\ UNCHANGED <<others, fn, arg, result, handlers, eof, temp_string, request, connection, idle, wire, invoked, called,
                 response, script>>

\* Request::new, chunked body: read_bytes(2) after the zero-size chunk's line.
ReadChunkEnd ==
  /\ pc = "chunk_end" /\ input # <<>>
  /\ LET r == read_bytes(temp_vec, input, builder.bytes_to_read) IN
       /\ input' = r.rest
       /\ IF r.kind = "done"
            THEN temp_vec' = <<>> /\ pc' = "trailers"
            ELSE temp_vec' = r.vec /\ pc' = pc
  /\ UNCHANGED <<others, fn, arg, result, handlers, eof, temp_string, builder, request, connection, idle, wire,
                 invoked, called, response, script>>

\* Request::new, chunked body: while read_line()?.len() != 0 {}
ReadTrailer ==
  /\ pc = "trailers" /\ input # <<>>
  /\ LET r == read_line(temp_string, input) IN
       /\ input' = r.rest
       /\ CASE r.kind = "more" ->
                 temp_string' = r.line /\ UNCHANGED <<others, fn, arg, result, pc, request>>
            [] r.kind = "none" ->
                 pc' = "terminate" /\ UNCHANGED <<others, fn, arg, result, temp_string, request>>
            [] r.kind = "line" /\ r.line # <<>> ->
                 temp_string' = <<>> /\ UNCHANGED <<others, fn, arg, result, pc, request>>
            [] r.kind = "line" /\ r.line = <<>> ->
                 /\ temp_string' = <<>>
                 /\ pc' = "count"
                 /\ request' = BuiltRequest(builder)
  /\ UNCHANGED <<others, fn, arg, result, handlers, eof, temp_vec, builder, connection, idle, wire, invoked, called,
                 response, script>>

\* Request::new, Content-Length body: read_bytes(content_length).
ReadBody ==
  /\ pc = "body" /\ input # <<>>
  /\ LET r == read_bytes(temp_vec, input, builder.bytes_to_read) IN
       /\ input' = r.rest
       /\ IF r.kind = "done"
            THEN /\ builder' = [builder EXCEPT !.body = r.vec]
                 /\ request' = BuiltRequest([builder EXCEPT !.body = r.vec])
                 /\ temp_vec' = <<>>
                 /\ pc' = "count"
            ELSE /\ temp_vec' = r.vec
                 /\ UNCHANGED <<others, fn, arg, result, pc, builder, request>>
  /\ UNCHANGED <<others, fn, arg, result, handlers, eof, temp_string, connection, idle, wire, invoked, called, response,
                 script>>

\* inactive_since = now; requests_received += 1; the request-count check.
CountRequest ==
  /\ pc = "count"
  /\ idle' = 0
  /\ connection' = [connection EXCEPT !.requests_received = @ + 1]
  /\ pc' = IF over_limit(connection') THEN "terminate" ELSE "version_check"
  /\ UNCHANGED <<others, fn, arg, result, handlers, input, eof, temp_string, temp_vec, builder, request, wire,
                 invoked, called, response, script>>

\* A version check that looks for the Host header first; C35 must tell the two apart.
VersionCheck_after_host ==
  /\ pc = "version_check"
  /\ IF has_host(request.headers) /\ version_check(request.version) = "supported"
       THEN pc' = "host_check" /\ wire' = wire
       ELSE /\ \E ord \in ResponseOrders(Response_new) :
                 wire' = quick(wire, IF has_host(request.headers)
                                       THEN version_check(request.version)
                                       ELSE "BadRequest", ord)
            /\ pc' = "terminate"
  /\ UNCHANGED <<others, fn, arg, result, handlers, input, eof, temp_string, temp_vec, builder, request,
                 connection, idle, invoked, called, response, script>>

\* 'version_check
VersionCheck ==
  /\ pc = "version_check"
  /\ IF version_check(request.version) = "supported"
       THEN pc' = "host_check" /\ wire' = wire
       ELSE /\ \E ord \in ResponseOrders(Response_new) :
                 wire' = quick(wire, version_check(request.version), ord)
            /\ pc' = "terminate"
  /\ UNCHANGED <<others, fn, arg, result, handlers, input, eof, temp_string, temp_vec, builder, request,
                 connection, idle, invoked, called, response, script>>

\* if !request.headers.contains_key("host")
HostCheck ==
  /\ pc = "host_check"
  /\ IF has_host(request.headers)
       THEN pc' = "handle_headers" /\ wire' = wire
       ELSE /\ \E ord \in ResponseOrders(Response_new) :
                 wire' = quick(wire, "BadRequest", ord)
            /\ pc' = "terminate"
  /\ UNCHANGED <<others, fn, arg, result, handlers, input, eof, temp_string, temp_vec, builder, request,
                 connection, idle, invoked, called, response, script>>

\* if let Err(status) = self.handle_headers(..)
HandleHeaders ==
  /\ pc = "handle_headers"
  /\ \E names \in Orders(DOMAIN request.headers) :
       LET res == handle_headers(connection, request.headers, names) IN
         /\ connection' = res.conn
         /\ IF res.ok
              THEN pc' = "route" /\ wire' = wire
              ELSE /\ \E ord \in ResponseOrders(Response_new) :
                        wire' = quick(wire, "BadRequest", ord)
                   /\ pc' = "terminate"
  /\ UNCHANGED <<others, fn, arg, result, handlers, input, eof, temp_string, temp_vec, builder, request, idle,
                 invoked, called, response, script>>

\* The routing block: a callback is entered with a new Response, or the loop
\* continues with none run, or 404 is sent and the loop left.
Route ==
  /\ pc = "route"
  /\ LET out == route(handlers, request) IN
       CASE out.kind = "invoke" ->
              /\ pc' = "handler"
              /\ request' = [request EXCEPT !.target = out.target]
              /\ response' = Response_new
              /\ script' = Callback(out.cb)
              /\ invoked' = Append(invoked, out.cb)
              /\ called' = <<>>
              /\ wire' = wire
         [] out.kind = "continue" ->
              /\ pc' = "loop_head"
              /\ UNCHANGED <<others, fn, arg, result, request, response, script, invoked, called, wire>>
         [] out.kind = "not_found" ->
              /\ \E ord \in ResponseOrders(Response_new) :
                   wire' = quick(wire, "NotFound", ord)
              /\ pc' = "terminate"
              /\ UNCHANGED <<others, fn, arg, result, request, response, script, invoked, called>>
         [] out.kind = "panic" ->
              /\ pc' = "panicked"
              /\ UNCHANGED <<others, fn, arg, result, request, response, script, invoked, called, wire>>
  /\ UNCHANGED <<others, fn, arg, result, handlers, input, eof, temp_string, temp_vec, builder, connection, idle>>

\* The running callback makes its next call on the Response.
HandlerCall ==
  /\ pc = "handler" /\ script # <<>>
  /\ \E ord \in ResponseOrders(response) :
       LET call == Head(script)
           rw == [r |-> response, w |-> wire]
           out == CASE call.op = "status" -> status(rw, call.a)
                    [] call.op = "set_header" -> set_header(rw, call.a[1], call.a[2])
                    [] call.op = "set_cookie" -> set_cookie(rw, call.a)
                    [] call.op = "send" -> send(rw, call.a, ord)
                    [] call.op = "end" -> end(rw, ord)
                    [] call.op = "end_with" -> end_with(rw, call.a, ord)
       IN /\ response' = out.r
          /\ wire' = out.w
  /\ script' = Tail(script)
  /\ called' = Append(called, Head(script))
  /\ UNCHANGED <<others, fn, arg, result, handlers, input, eof, pc, temp_string, temp_vec, builder, request,
                 connection, idle, invoked>>

\* The callback returns: continue 'connection_loop.
HandlerReturn ==
  /\ pc = "handler" /\ script = <<>>
  /\ pc' = "loop_head"
  /\ UNCHANGED <<others, fn, arg, result, handlers, input, eof, temp_string, temp_vec, builder, request,
                 connection, idle, wire, invoked, called, response, script>>

\* connection.terminate_connection(): the socket is shut down.
Terminate ==
  /\ pc = "terminate"
  /\ pc' = "closed"
  /\ UNCHANGED <<others, fn, arg, result, handlers, input, eof, temp_string, temp_vec, builder, request,
                 connection, idle, wire, invoked, called, response, script>>

Next ==
  \/ ClientSend
  \/ ClientClose
  \/ LoopHead
  \/ ReadSleep
  \/ ReadLineTimeout
  \/ ReadBytesTimeout
  \/ ReadRequestLine
  \/ ReadHeaderLine
  \/ ReadChunkSize
  \/ ReadChunkData
  \/ ReadChunkEnd
  \/ ReadTrailer
  \/ ReadBody
  \/ CountRequest
  \/ VersionCheck
  \/ HostCheck
  \/ HandleHeaders
  \/ Route
  \/ HandlerCall
  \/ HandlerReturn
  \/ Terminate

Spec == Init /\ [][Next]_vars

(***************************************************************************)
(* One Response under any sequence of calls                                *)
(***************************************************************************)
\* The longest sequence of calls a callback makes on its Response.
MaxCalls == 3

X_A == <<"X", "-", "A">>
D_long ==
  <<"a", "b", "c", "d", "e", "f", "g", "h", "i", "j", "k", "l", "m",
    "n", "o", "p", "q", "r", "s", "t", "u", "v", "w", "x", "y", "z">>

\* The calls that leave the Response usable: status, set_header (a free name and a
\* forbidden one), set_cookie, send (2 bytes, 26 bytes and none).
NonFinalCalls ==
  << [op |-> "status", a |-> "NotFound"],
     [op |-> "status", a |-> "OK"],
     [op |-> "set_header", a |-> <<X_A, <<"1">>>>],
     [op |-> "set_header", a |-> <<S_Date, <<"x">>>>],
     [op |-> "set_header", a |-> <<S_Transfer_Encoding, <<"x">>>>],
     [op |-> "set_cookie", a |-> Cookie_new(<<"a">>, <<"1">>)],
     [op |-> "send", a |-> D_hi],
     [op |-> "send", a |-> D_long],
     [op |-> "send", a |-> <<>>] >>

\* The calls that consume the Response (end(mut self), end_with(mut self, ..)): no
\* call can follow them.
FinalCalls ==
  << [op |-> "end", a |-> <<>>],
     [op |-> "end_with", a |-> D_pong],
     [op |-> "end_with", a |-> <<>>] >>

AllCalls == NonFinalCalls \o FinalCalls

\* A callback has just been given a new Response and will make any sequence of at
\* most MaxCalls calls on it, a consuming call being the last one if there is one.
InitResponse ==
  /\ handlers = EmptyMap
  /\ input = <<>>
  /\ eof = FALSE
  /\ pc = "handler"
  /\ temp_string = <<>>
  /\ temp_vec = <<>>
  /\ builder = NoBuilder
  /\ request = NoRequest
  /\ connection = Connection_new
  /\ idle = 0
  /\ wire = <<>>
  /\ invoked = <<"any">>
  /\ called = <<>>
  /\ response = Response_new
  /\ others = <<>>
  /\ fn = "none"
  /\ arg = <<>>
  /\ result = NoResult
  /\ \E n \in 0..MaxCalls :
       \E ks \in [1..n -> 1..Len(AllCalls)] :
         /\ \A i \in 1..(n - 1) : ks[i] <= Len(NonFinalCalls)
         /\ script = [i \in 1..n |-> AllCalls[ks[i]]]

NextResponse ==
  \/ HandlerCall
  \/ HandlerReturn

SpecResponse == InitResponse /\ [][NextResponse]_vars

(***************************************************************************)
(* The constructors of structs.rs applied on their own: Cookie::new,       *)
(* Target::new (with Target::decode_url) and Version::new are public and   *)
(* take any string, so a caller can apply them to any text.                *)
(***************************************************************************)
MaxNameLen == 2
MaxValueLen == 3
MaxUrlLen == 4
MaxQueryLen == 3
MaxVersionTail == 4
MaxLineLen == 4

\* The strings of at most n characters drawn from alphabet A.
Strings(A, n) == UNION {[1..k -> A] : k \in 0..n}

\* Cookie::new("a b", "\"x;y\"")
CookieExample == << <<"a", " ", "b">>, <<"\"", "x", ";", "y", "\"">> >>

CookieArgs ==
  { <<n, v>> : n \in Strings({"a", " ", "=", "/"}, MaxNameLen),
               v \in Strings({"x", "\"", ";", "="}, MaxValueLen) }
    \cup {CookieExample}

UrlArgs ==
  { <<u>> : u \in Strings({"x", "%", "4", "5"}, MaxUrlLen) }
    \cup { << <<"%", "4", "F">> >>, << <<"%", "4", "f">> >>,
           << <<"/", "p", "%", "2", "0", "q">> >> }

TargetArgs ==
  { <<p>> : p \in {<<"/">>, <<"/", "p">>} }
    \cup { <<p \o <<"?">> \o q>> :
             p \in {<<"/">>, <<"/", "p">>}, q \in Strings({"a", "=", "&"}, MaxQueryLen) }
    \cup { << <<"/", "p", "?", "a", "=", "1", "&", "b", "=", "2">> >>,
           << <<"/", "p", "%", "3", "F", "a", "=", "1">> >> }

VersionArgs ==
  { <<S_HTTP \o <<"/">> \o t>> : t \in Strings({"0", "1", ".", "x"}, MaxVersionTail) }
    \cup { << <<"H", "T", "T", "P", "/", "+", "1", ".", "1">> >>,
           << <<"h", "t", "t", "p", "/", "1", ".", "1">> >>,
           << <<"H", "T", "T", "P", "-", "1", ".", "1">> >>,
           << <<"H", "T", "T", "P">> >>,
           << <<"H", "T", "T", "P", "/", "1", "2", ".", "3", "4", "5">> >> }

\* The bytes a peer may have sent when read_line is called.
LineArgs == { <<b>> : b \in Strings({"a", "\r", "\n"}, MaxLineLen) }

\* A caller is about to apply one of the constructors to some strings.
InitParse ==
  /\ handlers = EmptyMap
  /\ input = <<>>
  /\ eof = FALSE
  /\ pc = "caller"
  /\ temp_string = <<>>
  /\ temp_vec = <<>>
  /\ builder = NoBuilder
  /\ request = NoRequest
  /\ connection = Connection_new
  /\ idle = 0
  /\ wire = <<>>
  /\ invoked = <<>>
  /\ called = <<>>
  /\ response = Response_new
  /\ script = <<>>
  /\ others = <<>>
  /\ result = NoResult
  /\ \/ fn = "Cookie::new" /\ arg \in CookieArgs
     \/ fn = "Target::decode_url" /\ arg \in UrlArgs
     \/ fn = "Target::new" /\ arg \in TargetArgs
     \/ fn = "Version::new" /\ arg \in VersionArgs
     \/ fn = "read_line" /\ arg \in LineArgs

\* Target::decode_url(arg)
CallDecodeUrl ==
  /\ pc = "caller" /\ fn = "Target::decode_url" /\ ~result.done
  /\ result' = [done |-> TRUE, v |-> decode_url(arg[1])]
  /\ UNCHANGED <<others, handlers, input, eof, pc, temp_string, temp_vec, builder, request,
                 connection, idle, wire, invoked, called, response, script, fn, arg>>

\* Cookie::new(name, value), then the cookie's to_string()
CallCookieNew ==
  /\ pc = "caller" /\ fn = "Cookie::new" /\ ~result.done
  /\ LET cookie == Cookie_new(arg[1], arg[2]) IN
       result' = [done |-> TRUE, v |-> cookie, shown |-> Cookie_fmt(cookie)]
  /\ UNCHANGED <<others, handlers, input, eof, pc, temp_string, temp_vec, builder, request,
                 connection, idle, wire, invoked, called, response, script, fn, arg>>

\* Target::new(arg), then the target's to_string() (the query map visited in some
\* order), then Target::new of that string.
CallTargetNew ==
  /\ pc = "caller" /\ fn = "Target::new" /\ ~result.done
  /\ LET target == Target_new(arg[1]) IN
       \E ord \in Orders(DOMAIN target.queries) :
         result' = [done |-> TRUE, v |-> target, shown |-> Target_fmt(target, ord),
                    again |-> Target_new(Target_fmt(target, ord))]
  /\ UNCHANGED <<others, handlers, input, eof, pc, temp_string, temp_vec, builder, request,
                 connection, idle, wire, invoked, called, response, script, fn, arg>>

\* Version::new(arg), then the version's to_string() when there is one.
CallVersionNew ==
  /\ pc = "caller" /\ fn = "Version::new" /\ ~result.done
  /\ LET version == Version_new(arg[1]) IN
       result' = [done |-> TRUE, v |-> version,
                  shown |-> IF version.ok THEN Version_fmt(version) ELSE <<>>]
  /\ UNCHANGED <<others, handlers, input, eof, pc, temp_string, temp_vec, builder, request,
                 connection, idle, wire, invoked, called, response, script, fn, arg>>

\* read_line(connection) on a socket that holds the bytes arg
CallReadLine ==
  /\ pc = "caller" /\ fn = "read_line" /\ ~result.done
  /\ result' = [done |-> TRUE, v |-> read_line(<<>>, arg[1])]
  /\ UNCHANGED <<others, handlers, input, eof, pc, temp_string, temp_vec, builder, request,
                 connection, idle, wire, invoked, called, response, script, fn, arg>>

NextParse ==
  \/ CallReadLine
  \/ CallDecodeUrl
  \/ CallCookieNew
  \/ CallTargetNew
  \/ CallVersionNew

SpecParse == InitParse /\ [][NextParse]_vars

(***************************************************************************)
(* Routing on its own: a server started after any few registrations, and   *)
(* a request that has passed the driver's checks.                          *)
(***************************************************************************)
MaxRegistrations == 3

P_a_b == <<"/", "a", "/", "b">>

\* The callbacks registered first, second, ...: the callback tells which entry ran.
RegisteredCallbacks == <<"pong", "send", "not_found", "nothing">>

\* server.on(..), on_get(..), on_post(..) or on_directory(..) with the i-th callback
Registration(kind, i) ==
  CASE kind = "on" -> on(RegisteredCallbacks[i])
    [] kind = "on_get" -> on_get(RegisteredCallbacks[i])
    [] kind = "on_post" -> on_post(RegisteredCallbacks[i])
    [] kind = "on_directory" -> on_directory(RegisteredCallbacks[i])

\* The table after the first n registrations of regs.
RECURSIVE Registered(_, _)
Registered(regs, n) ==
  IF n = 0 THEN EmptyMap
  ELSE append_handler(Registered(regs, n - 1), regs[n][1], Registration(regs[n][2], n))

RouteTables ==
  { Registered(regs, Len(regs)) :
      regs \in UNION { [1..n -> {P_a, P_a_b} \X {"on", "on_get", "on_post", "on_directory"}] :
                         n \in 0..MaxRegistrations } }

RoutePaths ==
  { P_a, P_a_b, <<"/", "a", "/", "b", "/", "c">>, <<"/", "a", "b">>, <<"x", "/", "a">>,
    <<"/", "a", "/">> }

\* The driver is about to route a request that passed its checks.
InitRoute ==
  /\ handlers \in RouteTables
  /\ input = <<>>
  /\ eof = FALSE
  /\ pc = "route"
  /\ temp_string = <<>>
  /\ temp_vec = <<>>
  /\ builder = NoBuilder
  /\ \E method \in {"GET", "POST"}, path \in RoutePaths :
       request = [NoRequest EXCEPT !.some = TRUE, !.method = method,
                                   !.target = Target_new(path),
                                   !.headers = MapInsert(EmptyMap, S_host, <<"x">>)]
  /\ connection = [Connection_new EXCEPT !.requests_received = 1]
  /\ idle = 0
  /\ wire = <<>>
  /\ invoked = <<>>
  /\ called = <<>>
  /\ response = Response_new
  /\ script = <<>>
  /\ others = <<>>
  /\ fn = "none"
  /\ arg = <<>>
  /\ result = NoResult

NextRoute == Route

SpecRoute == InitRoute /\ [][NextRoute]_vars

(***************************************************************************)
(* The driver's loop over requests that Request::new has parsed: what the  *)
(* connection's counters do over a long connection, whatever Keep-Alive    *)
(* headers the requests carry.                                             *)
(***************************************************************************)
\* The Keep-Alive values the requests may carry.
KeepAliveValues ==
  { <<"m", "a", "x", "=", "2", "0">>,
    <<"m", "a", "x", "=", "2", "1">>,
    <<"m", "a", "x", "=", "3">>,
    <<"t", "i", "m", "e", "o", "u", "t", "=", "3", "0", ",", "m", "a", "x", "=", "1", "0", "0">>,
    <<"m", "a", "x", "=", "7", ",", "m", "a", "x", "=", "2", "0">> }

\* GET /ping HTTP/1.1 with Host, as Request::new returns it, without and with a
\* Keep-Alive header.
ParsedRequests ==
  LET plain == [NoRequest EXCEPT !.some = TRUE, !.target = Target_new(P_ping),
                                 !.headers = MapInsert(EmptyMap, S_host, <<"x">>)]
  IN {plain} \cup { [plain EXCEPT !.headers = MapInsert(@, S_keep_alive, v)] :
                      v \in KeepAliveValues }

InitCount ==
  /\ handlers = append_handler(EmptyMap, P_ping, on("pong"))
  /\ input = <<>>
  /\ eof = FALSE
  /\ pc = "loop_head"
  /\ temp_string = <<>>
  /\ temp_vec = <<>>
  /\ builder = NoBuilder
  /\ request = NoRequest
  /\ connection = Connection_new
  /\ idle = 0
  /\ wire = <<>>
  /\ invoked = <<>>
  /\ called = <<>>
  /\ response = Response_new
  /\ script = <<>>
  /\ others = <<>>
  /\ fn = "none"
  /\ arg = <<>>
  /\ result = NoResult

\* Request::new(&mut connection) returns Some(request).
RequestArrives ==
  /\ pc = "request_line"
  /\ request' \in ParsedRequests
  /\ pc' = "count"
  /\ UNCHANGED <<others, handlers, input, eof, temp_string, temp_vec, builder, connection, idle,
                 wire, invoked, called, response, script, fn, arg, result>>

NextCount ==
  \/ LoopHead
  \/ RequestArrives
  \/ CountRequest
  \/ VersionCheck
  \/ HostCheck
  \/ HandleHeaders
  \/ Route
  \/ HandlerCall
  \/ HandlerReturn
  \/ Terminate

SpecCount == InitCount /\ [][NextCount]_vars

(***************************************************************************)
(* The worker thread to its end.  Here the shutdown call can fail: on a    *)
(* socket whose peer has already closed, TcpStream::shutdown may return    *)
(* Err(NotConnected), and it does so again on every later call.  The       *)
(* thread is scheduled fairly: a step it can take when the socket has      *)
(* nothing more to give (a sleep, a timeout, the shutdown) is taken.  The  *)
(* peer owes nothing.                                                      *)
(***************************************************************************)
InitWorker ==
  /\ Init
  /\ handlers = append_handler(append_handler(EmptyMap, P_ping, on("pong")), P_a, on_get("pong"))

\* connection.terminate_connection(): loop { match shutdown(Both) { Ok => break,
\* Err => () } }.  The first call returns Ok, or Err on a socket the peer has closed.
TerminateConnection ==
  /\ pc = "terminate"
  /\ \/ pc' = "closed"
     \/ eof /\ pc' = "shutdown_failing"
  /\ UNCHANGED <<others, handlers, input, eof, temp_string, temp_vec, builder, request, connection,
                 idle, wire, invoked, called, response, script, fn, arg, result>>

\* The loop of terminate_connection on a socket that is not connected: the call
\* returns Err again and is made again.
ShutdownRetry ==
  /\ pc = "shutdown_failing"
  /\ UNCHANGED vars

\* The steps of the worker thread.
WorkerStep ==
  \/ LoopHead
  \/ ReadSleep
  \/ ReadLineTimeout
  \/ ReadBytesTimeout
  \/ ReadRequestLine
  \/ ReadHeaderLine
  \/ ReadChunkSize
  \/ ReadChunkData
  \/ ReadChunkEnd
  \/ ReadTrailer
  \/ ReadBody
  \/ CountRequest
  \/ VersionCheck
  \/ HostCheck
  \/ HandleHeaders
  \/ Route
  \/ HandlerCall
  \/ HandlerReturn
  \/ TerminateConnection
  \/ ShutdownRetry

NextWorker ==
  \/ ClientSend
  \/ ClientClose
  \/ WorkerStep

\* The steps the worker takes without a byte from the peer.
QuietStep ==
  \/ ReadSleep
  \/ ReadLineTimeout
  \/ ReadBytesTimeout
  \/ TerminateConnection

SpecWorker == InitWorker /\ [][NextWorker]_vars /\ WF_vars(QuietStep)

(***************************************************************************)
(* A stream whose writes can fail.  Every write of a Response is           *)
(* self.parent.stream.write(..).unwrap(): when write returns Err the       *)
(* unwrap panics and the worker thread unwinds from there.  The writes     *)
(* made before the failing one are on the wire.                            *)
(***************************************************************************)
\* The requests that arrive: GET /ping, GET /a and GET /none, each with Host.
WriteRequests ==
  { [NoRequest EXCEPT !.some = TRUE, !.target = Target_new(t),
                      !.headers = MapInsert(EmptyMap, S_host, <<"x">>)] :
      t \in {P_ping, P_a, T_none} }

\* Request::new(&mut connection) returns Some(request).
WriteRequestArrives ==
  /\ pc = "request_line"
  /\ request' \in WriteRequests
  /\ pc' = "count"
  /\ UNCHANGED <<others, handlers, input, eof, temp_string, temp_vec, builder, connection, idle,
                 wire, invoked, called, response, script, fn, arg, result>>

\* The writes of w that come before the one that fails, when one of those after the
\* first n does.
WritesBeforeFailure(w, n) == { SubSeq(w, 1, k - 1) : k \in (n + 1)..Len(w) }

\* A call the callback makes on the Response, with a write in it that returns Err.
HandlerWriteFails ==
  /\ pc = "handler" /\ script # <<>>
  /\ \E ord \in ResponseOrders(response) :
       LET call == Head(script)
           rw == [r |-> response, w |-> wire]
           out == CASE call.op = "status" -> status(rw, call.a)
                    [] call.op = "set_header" -> set_header(rw, call.a[1], call.a[2])
                    [] call.op = "set_cookie" -> set_cookie(rw, call.a)
                    [] call.op = "send" -> send(rw, call.a, ord)
                    [] call.op = "end" -> end(rw, ord)
                    [] call.op = "end_with" -> end_with(rw, call.a, ord)
       IN wire' \in WritesBeforeFailure(out.w, Len(wire))
  /\ pc' = "panicked"
  /\ UNCHANGED <<others, fn, arg, result, handlers, input, eof, temp_string, temp_vec, builder, request,
                 connection, idle, invoked, called, response, script>>

\* The 404 of the driver (Response::quick), with a write in it that returns Err.
QuickWriteFails ==
  /\ pc = "route"
  /\ route(handlers, request).kind = "not_found"
  /\ \E ord \in ResponseOrders(Response_new) :
       wire' \in WritesBeforeFailure(quick(wire, "NotFound", ord), Len(wire))
  /\ pc' = "panicked"
  /\ UNCHANGED <<others, fn, arg, result, handlers, input, eof, temp_string, temp_vec, builder, request,
                 connection, idle, invoked, called, response, script>>

NextWrite ==
  \/ LoopHead
  \/ WriteRequestArrives
  \/ CountRequest
  \/ VersionCheck
  \/ HostCheck
  \/ HandleHeaders
  \/ Route
  \/ HandlerCall
  \/ HandlerReturn
  \/ HandlerWriteFails
  \/ QuickWriteFails
  \/ Terminate

SpecWrite == Init /\ [][NextWrite]_vars

(***************************************************************************)
(* The server with several connections.  Server::start moves self into an  *)
(* Arc and, for every stream the listener accepts, spawns a thread that    *)
(* runs handle_connection(stream) on a clone of the Arc.  The variables    *)
(* of the driver are those of the thread that is running; the threads      *)
(* that are not are kept, each as a record of its variables, in others.    *)
(* The scheduler may run any thread at any moment.                         *)
(***************************************************************************)
\* The connections the listener accepts.
MaxConnections == 2

\* The variables of the running thread.
Worker ==
  [input |-> input, eof |-> eof, pc |-> pc, temp_string |-> temp_string,
   temp_vec |-> temp_vec, builder |-> builder, request |-> request,
   connection |-> connection, idle |-> idle, wire |-> wire, invoked |-> invoked,
   called |-> called, response |-> response, script |-> script]

\* A thread as thread::spawn starts it: handle_connection has made Connection::new(stream).
NewWorker ==
  [input |-> <<>>, eof |-> FALSE, pc |-> "loop_head", temp_string |-> <<>>,
   temp_vec |-> <<>>, builder |-> NoBuilder, request |-> NoRequest,
   connection |-> Connection_new, idle |-> 0, wire |-> <<>>, invoked |-> <<>>,
   called |-> <<>>, response |-> Response_new, script |-> <<>>]

InitServer ==
  /\ Init
  /\ handlers = append_handler(append_handler(EmptyMap, P_ping, on("pong")), P_a, on_get("pong"))

\* listener.incoming() yields a stream and thread::spawn starts its worker.
Accept ==
  /\ Len(others) + 1 < MaxConnections
  /\ others' = Append(others, NewWorker)
  /\ UNCHANGED <<handlers, input, eof, pc, temp_string, temp_vec, builder, request,
                 connection, idle, wire, invoked, called, response, script, fn, arg, result>>

\* A scheduler that runs another thread only once the running one has ended, as if
\* handle_connection were called in the accept loop itself.
Switch_when_closed(i) ==
  /\ i \in DOMAIN others
  /\ pc \in {"closed", "panicked"}
  /\ LET w == others[i] IN
       /\ input' = w.input /\ eof' = w.eof /\ pc' = w.pc
       /\ temp_string' = w.temp_string /\ temp_vec' = w.temp_vec
       /\ builder' = w.builder /\ request' = w.request
       /\ connection' = w.connection /\ idle' = w.idle /\ wire' = w.wire
       /\ invoked' = w.invoked /\ called' = w.called
       /\ response' = w.response /\ script' = w.script
  /\ others' = [others EXCEPT ![i] = Worker]
  /\ UNCHANGED <<handlers, fn, arg, result>>

\* The scheduler takes the running thread off and runs the i-th of the others.
Switch(i) ==
  /\ i \in DOMAIN others
  /\ LET w == others[i] IN
       /\ input' = w.input /\ eof' = w.eof /\ pc' = w.pc
       /\ temp_string' = w.temp_string /\ temp_vec' = w.temp_vec
       /\ builder' = w.builder /\ request' = w.request
       /\ connection' = w.connection /\ idle' = w.idle /\ wire' = w.wire
       /\ invoked' = w.invoked /\ called' = w.called
       /\ response' = w.response /\ script' = w.script
  /\ others' = [others EXCEPT ![i] = Worker]
  /\ UNCHANGED <<handlers, fn, arg, result>>

\* The requests the peers send: GET /ping, alone, with Keep-Alive and with
\* Connection: close, and GET /none.
ServerRequests ==
  LET plain == [NoRequest EXCEPT !.some = TRUE, !.target = Target_new(P_ping),
                                 !.headers = MapInsert(EmptyMap, S_host, <<"x">>)]
  IN { plain,
       [plain EXCEPT !.headers = MapInsert(@, S_keep_alive, KA_30_3_tight)],
       [plain EXCEPT !.headers = MapInsert(@, S_connection, S_close)],
       [plain EXCEPT !.target = Target_new(T_none)] }

\* Request::new(&mut connection) returns Some(request) in the running thread.
ServerRequestArrives ==
  /\ pc = "request_line"
  /\ request' \in ServerRequests
  /\ pc' = "count"
  /\ UNCHANGED <<others, handlers, input, eof, temp_string, temp_vec, builder, connection,
                 idle, wire, invoked, called, response, script, fn, arg, result>>

\* A step of the running thread.
RunningStep ==
  \/ LoopHead
  \/ ServerRequestArrives
  \/ CountRequest
  \/ VersionCheck
  \/ HostCheck
  \/ HandleHeaders
  \/ Route
  \/ HandlerCall
  \/ HandlerReturn
  \/ Terminate

NextServer ==
  \/ Accept
  \/ \E i \in DOMAIN others : Switch(i)
  \/ RunningStep

SpecServer == InitServer /\ [][NextServer]_vars

(***************************************************************************)
(* Vocabulary of the properties                                            *)
(***************************************************************************)
\* Whether string s starts with string prefix.
StartsWith(s, prefix) == Len(s) >= Len(prefix) /\ SubSeq(s, 1, Len(prefix)) = prefix

\* "HTTP/1.1 ", the start of every status line
StatusLineStart == <<"H", "T", "T", "P", "/", "1", ".", "1", " ">>

\* A header line as it appears on the wire.
HeaderLine(name, value) == name \o <<":", " ">> \o value \o CRLF

\* The writes w are exactly one empty reply with status s: the status line, the two
\* seeded headers in either order, the blank line, the last chunk.
IsReply(w, s) ==
  /\ Len(w) = 5
  /\ w[1] = StatusLine(s)
  /\ {w[2], w[3]} = {HeaderLine(S_Transfer_Encoding, S_chunked), HeaderLine(S_Date, format_time)}
  /\ w[4] = CRLF
  /\ w[5] = S_LastChunk

\* The writes w are exactly one response: the first write is a status line, the last
\* is the last-chunk terminator, and there is no second status line or terminator.
IsOneResponse(w) ==
  /\ w # <<>>
  /\ StartsWith(w[1], StatusLineStart)
  /\ w[Len(w)] = S_LastChunk
  /\ Cardinality({i \in 1..Len(w) : StartsWith(w[i], StatusLineStart)}) = 1
  /\ Count(w, S_LastChunk) = 1

\* The driver has finished its iteration for a request Request::new returned.
IterationOver == request.some /\ pc \in {"loop_head", "terminate", "closed"}

\* The decoded path of the request-target as it was received on the first line.
ReceivedPath == Target_new(split_whitespace(builder.first_line)[2]).relative_path

\* The Keep-Alive header value of the request in hand is v.
KeepAliveIs(v) ==
  S_keep_alive \in DOMAIN request.headers /\ request.headers[S_keep_alive] = v

(***************************************************************************)
(* C1..C10                                                                 *)
(***************************************************************************)
\* C1: every well-formed request (parsed, HTTP/1.1, with Host), here one that is also
\* within the connection's request limit and whose headers the driver accepted, has
\* exactly one response written for it by the time the driver is done with it: the
\* writes begin with "HTTP/1.1 " and end with the single terminator "0\r\n\r\n".
C1_OneResponsePerRequest ==
  ( /\ IterationOver
    /\ request.version = VERSION
    /\ S_host \in DOMAIN request.headers
    /\ ~over_limit(connection) )
  => IsOneResponse(wire)

\* C2: after a handler has run, the driver goes on to read the next request (it is
\* back at the loop head with close false) only when the response to the request just
\* handled has reached the last-chunk terminator.
C2_NextRequestAfterLastChunk ==
  (pc = "loop_head" /\ invoked # <<>> /\ ~connection.close)
  => (wire # <<>> /\ wire[Len(wire)] = S_LastChunk)

\* The only handlers registered at the request's exact path are Specific handlers for
\* other methods.
OnlyOtherMethods ==
  /\ full_url(request.target) \in DOMAIN handlers
  /\ \A i \in 1..Len(handlers[full_url(request.target)]) :
       /\ handlers[full_url(request.target)][i].sel = "Specific"
       /\ handlers[full_url(request.target)][i].method # request.method

\* C3: when the only handlers at the request's exact path are Specific handlers for
\* another method, routing writes a 404 reply, runs no handler and leaves the loop to
\* close the connection.
C3_MethodMismatchIs404 ==
  [][(pc = "route" /\ OnlyOtherMethods)
       => (pc' = "terminate" /\ IsReply(wire', "NotFound") /\ invoked' = <<>>)]_vars

\* C4: whenever a handler runs, the target it was given satisfies
\* target_path + relative_path = the decoded path of the request as received.
C4_FullUrlIsReceivedPath ==
  pc = "handler" => full_url(request.target) = ReceivedPath

\* The list at the request's exact path holds Directory handlers only.
OnlyDirectoryAtExactPath ==
  /\ full_url(request.target) \in DOMAIN handlers
  /\ \A i \in 1..Len(handlers[full_url(request.target)]) :
       handlers[full_url(request.target)][i].sel = "Directory"

\* C5: a request whose path is exactly a path that holds only Directory handlers is
\* given to the first of them: the prefix pass runs before any 404.
C5_DirectoryAtItsOwnPath ==
  [][(pc = "route" /\ OnlyDirectoryAtExactPath)
       => (pc' = "handler"
           /\ invoked' = <<handlers[full_url(request.target)][1].cb>>)]_vars

\* C6: the count check lets a request through exactly when, counted, it is within
\* max_requests, and otherwise leaves the loop with no byte written and no handler
\* run; max_requests is 5 until a request carrying Keep-Alive changes it, so without
\* Keep-Alive requests 1 to 5 pass and the 6th is closed silently.
C6_SilentCloseOverLimit ==
  [][/\ connection.requests_received = 0 => connection.max_requests = DefaultMaxRequests
     /\ connection'.max_requests # connection.max_requests
          => (pc = "handle_headers" /\ S_keep_alive \in DOMAIN request.headers)
     /\ pc = "count" =>
          IF connection.requests_received + 1 > connection.max_requests
            THEN pc' = "terminate" /\ wire' = <<>> /\ invoked' = <<>>
            ELSE pc' = "version_check"]_vars

\* Five requests went through, no Keep-Alive changed the limit, and the sixth was
\* closed without a byte.
C6_Witness ==
  /\ pc = "closed"
  /\ request.some
  /\ connection.max_requests = DefaultMaxRequests
  /\ connection.requests_received = DefaultMaxRequests + 1
  /\ wire = <<>>
  /\ invoked = <<>>

\* C7: once the first request of a connection, carrying
\* "Keep-Alive: timeout=30, max=3", has had its headers processed, the timeout is 30
\* and max_requests is 3.
C7_KeepAliveCommaSpace ==
  (pc = "route" /\ connection.requests_received = 1 /\ KeepAliveIs(KA_30_3))
  => (connection.timeout = 30 /\ connection.max_requests = 3)

\* C8: the timeout is 60 before any request and no step ever increases it.
C8_TimeoutNeverIncreases ==
  [][/\ connection.requests_received = 0 => connection.timeout = DefaultTimeout
     /\ connection'.timeout <= connection.timeout]_vars

\* A connection whose timeout a client lowered to 30 has processed a later
\* "Keep-Alive: timeout=90" and still has 30.
C8_Witness ==
  /\ pc = "route"
  /\ KeepAliveIs(KA_90)
  /\ connection.timeout = 30

\* C9: while the server waits for a request line or a header line, at most one 408
\* reply is written (after which the builder fails and the driver closes).
C9_OneTimeoutReply ==
  pc \in {"request_line", "headers"} => Count(wire, StatusLine("RequestTimeout")) <= 1

\* The version of the request in hand is not HTTP/1.1.
VersionRefused == request.some /\ request.version # VERSION

\* The status the version rules prescribe.
VersionStatus ==
  IF request.version.major # 1 THEN "HttpVersionNotSupported"
  ELSE IF request.version.minor > 1 THEN "BadRequest"
  ELSE "UpgradeRequired"

\* C10 as stated: once the driver is done with a parsed request whose version is not
\* 1.1, exactly the reply the version rules prescribe was sent and no handler ran.
C10_VersionReplyAlways ==
  (VersionRefused /\ pc \in {"terminate", "closed"})
  => (IsReply(wire, VersionStatus) /\ invoked = <<>>)

\* C10 amended: a parsed request that is within the connection's request limit and
\* whose version is not 1.1 gets, once past the version check, exactly the reply the
\* version rules prescribe (505, 400 or 426); no handler runs and the connection closes.
C10_VersionReplyWithinLimit ==
  (VersionRefused /\ pc \notin {"count", "version_check"} /\ ~over_limit(connection))
  => (pc \in {"terminate", "closed"} /\ IsReply(wire, VersionStatus) /\ invoked = <<>>)

\* An HTTP/2.0 request was answered 505 and the connection closed.
C10_Witness ==
  /\ pc = "closed"
  /\ request.some
  /\ request.version = [major |-> 2, minor |-> 0]
  /\ IsReply(wire, "HttpVersionNotSupported")
  /\ invoked = <<>>

\* C11 as stated: once the driver is done with a parsed HTTP/1.1 request that has no
\* Host header, exactly a 400 reply was sent and no handler ran.
C11_NoHostIs400Always ==
  ( /\ request.some
    /\ request.version = VERSION
    /\ S_host \notin DOMAIN request.headers
    /\ pc \in {"terminate", "closed"} )
  => (IsReply(wire, "BadRequest") /\ invoked = <<>>)

\* C11 amended: a parsed HTTP/1.1 request that is within the connection's request
\* limit and has no header named Host in any letter case gets, once past the Host
\* check, exactly a 400 reply; no handler runs and the connection closes.
C11_NoHostIs400WithinLimit ==
  ( /\ request.some
    /\ request.version = VERSION
    /\ S_host \notin DOMAIN request.headers
    /\ pc \notin {"count", "version_check", "host_check"}
    /\ ~over_limit(connection) )
  => (pc \in {"terminate", "closed"} /\ IsReply(wire, "BadRequest") /\ invoked = <<>>)

\* An HTTP/1.1 request without Host was answered 400 and the connection closed.
C11_Witness ==
  /\ pc = "closed"
  /\ request.some
  /\ request.version = VERSION
  /\ request.headers = EmptyMap
  /\ connection.requests_received = 1
  /\ IsReply(wire, "BadRequest")
  /\ invoked = <<>>

\* The worker, reading at position p, completes a line in this step.
LineRead(p) == pc = p /\ input # <<>> /\ read_line(temp_string, input).kind = "line"

\* The line it completes.
NextLine == read_line(temp_string, input).line

\* The builder fails after a reply with status s and nothing else: no request is
\* returned, no handler runs, the driver leaves the loop to shut the connection down.
RefusedWith(s) ==
  /\ pc' = "terminate"
  /\ IsReply(wire', s)
  /\ invoked' = <<>>
  /\ ~request'.some

C13_HeaderWithoutColon ==
  [][(LineRead("headers") /\ NextLine # <<>>
        /\ \A i \in 1..Len(NextLine) : NextLine[i] # ":")
       => ( /\ pc' = "terminate"
            /\ wire' = <<>>
            /\ invoked' = <<>>
            /\ ~request'.some )]_vars

\* The header line "Host x" ended the connection with nothing written and the rest
\* of the message unread.
C13_Witness ==
  /\ pc = "closed"
  /\ builder.first_line # <<>>
  /\ builder.headers = EmptyMap
  /\ ~request.some
  /\ wire = <<>>
  /\ invoked = <<>>
  /\ input = CRLF

\* C14: in a chunked body a size line made of hex digits only, with no ";extension",
\* is accepted: the builder goes on to the chunk's data or, for size zero, to the end
\* of the body.
C14_ChunkSizeWithoutExtension ==
  [][(LineRead("chunk_size") /\ parse_hex_usize(NextLine).ok)
       => pc' \in {"chunk_data", "chunk_end"}]_vars

\* The part of a chunk-size line that holds the size: what precedes the optional ";".
SizePart(line) ==
  IF split_once(line, <<";">>).ok THEN split_once(line, <<";">>).left ELSE line

\* C15: a chunk-size line whose size does not parse as hexadecimal is answered 400;
\* the builder fails, no handler runs and the connection closes.
C15_BadChunkSizeIs400 ==
  [][(LineRead("chunk_size") /\ ~parse_hex_usize(SizePart(NextLine)).ok)
       => RefusedWith("BadRequest")]_vars

\* C16: at the end of the header block, a Transfer-Encoding value that equals
\* "chunked" in any letter case starts the chunked body loop.
C16_ChunkedAnyCase ==
  [][( /\ LineRead("headers") /\ NextLine = <<>>
       /\ S_transfer_encoding \in DOMAIN builder.headers
       /\ to_lowercase(builder.headers[S_transfer_encoding]) = S_chunked )
       => pc' = "chunk_size"]_vars

\* C17: while a Content-Length body is read, no more than Content-Length bytes are
\* taken from the stream for it.
C17_BodyTakesExactlyN ==
  pc = "body" => Len(temp_vec) <= builder.bytes_to_read

\* C18: when the builder has failed on a Content-Length body because the stream ended
\* before all its bytes arrived, what was sent for the request is exactly a 500 reply,
\* and no handler ran.
C18_TruncatedBodyIs500 ==
  ( /\ pc \in {"terminate", "closed"}
    /\ ~request.some
    /\ eof
    /\ S_transfer_encoding \notin DOMAIN builder.headers
    /\ S_content_length \in DOMAIN builder.headers
    /\ parse_usize(builder.headers[S_content_length]).ok
    /\ builder.bytes_to_read > 0 )
  => (IsReply(wire, "InternalServerError") /\ invoked = <<>>)

\* A header line or a Set-Cookie line: "name: value" ended by a newline.
IsHeaderOrCookieLine(x) ==
  /\ x # <<>>
  /\ x[Len(x)] = "\n"
  /\ FindStr(x, <<":", " ">>) > 0
  /\ ~StartsWith(x, StatusLineStart)

\* C19: whatever calls were made on a Response, sent_headers implies sent_status,
\* nothing is written before the status line, and as soon as anything is written the
\* writes are: one status line, then header and cookie lines only, then the blank
\* line, then body writes only (no further status line, header line or cookie line).
C19_StatusThenHeadersThenBody ==
  /\ response.sent_headers => response.sent_status
  /\ (wire = <<>>) <=> ~response.sent_status
  /\ wire # <<>> =>
       /\ StartsWith(wire[1], StatusLineStart)
       /\ response.sent_headers
       /\ \E k \in 2..Len(wire) :
            /\ wire[k] = CRLF
            /\ \A i \in 2..(k - 1) : IsHeaderOrCookieLine(wire[i])
            /\ \A i \in (k + 1)..Len(wire) :
                 ~StartsWith(wire[i], StatusLineStart) /\ ~IsHeaderOrCookieLine(wire[i])

\* A callback set a cookie, sent a chunk and ended: the header block went out at the
\* send, and the end added the terminator only.
C19_Witness ==
  /\ Len(called) = 3
  /\ called[1].op = "set_cookie"
  /\ called[2].op = "send" /\ called[2].a = D_hi
  /\ called[3].op = "end"
  /\ Len(wire) = 9
  /\ wire[Len(wire)] = S_LastChunk

\* C20: a status(s) call writes nothing; it sets the Response's status to s while no
\* byte has been written and leaves it as it is afterwards; and the status line on
\* the wire, once written, is that of the Response's status and never changes.
C20_StatusFrozenOnceSent ==
  [][/\ (pc = "handler" /\ script # <<>> /\ Head(script).op = "status")
          => /\ wire' = wire
             /\ response'.status = IF wire = <<>> THEN Head(script).a ELSE response.status
     /\ wire # <<>> => (wire[1] = StatusLine(response.status) /\ wire'[1] = wire[1])]_vars

\* A callback sent a chunk with the default status and then called status(NotFound):
\* the Response and the wire still say 200 OK.
C20_Witness ==
  /\ Len(called) = 2
  /\ called[1].op = "send" /\ called[1].a = D_hi
  /\ called[2].op = "status" /\ called[2].a = "NotFound"
  /\ response.status = "OK"
  /\ wire[1] = StatusLine("OK")

\* The running callback is about to make the call op on its Response.
NextCallIs(op) == pc = "handler" /\ script # <<>> /\ Head(script).op = op

\* The size line of a zero-length chunk.
ZeroSizeLine == <<"0">> \o CRLF

\* C21: send with zero-length data is a no-op in every Response state: it writes
\* nothing and leaves the Response (sent_status and sent_headers included) as it is;
\* and no write is ever the size line of a zero-length chunk.
C21_EmptySendIsNoOp ==
  [][/\ (NextCallIs("send") /\ Head(script).a = <<>>)
          => (wire' = wire /\ response' = response)
     /\ \A i \in 1..Len(wire) : wire[i] # ZeroSizeLine]_vars

\* A callback's first call was send(""), and then it sent a chunk: the empty send
\* wrote nothing, the second one the head and the chunk.
C21_Witness ==
  /\ Len(called) = 2
  /\ called[1].op = "send" /\ called[1].a = <<>>
  /\ called[2].op = "send" /\ called[2].a = D_hi
  /\ Len(wire) = 7

\* The callback's last call consumed the Response.
Ended == called # <<>> /\ called[Len(called)].op \in {"end", "end_with"}

\* The non-empty data the calls handed to send and end_with, in call order.
RECURSIVE SentData(_)
SentData(calls) ==
  IF calls = <<>> THEN <<>>
  ELSE (IF Head(calls).op \in {"send", "end_with"} /\ Head(calls).a # <<>>
          THEN <<Head(calls).a>> ELSE <<>>)
         \o SentData(Tail(calls))

\* The status in force when the first byte is written: that of the last status call
\* made before the first call that writes, 200 OK when there is none.
RECURSIVE StatusInForce(_, _)
StatusInForce(calls, current) ==
  IF calls = <<>> THEN current
  ELSE IF Head(calls).op = "status" THEN StatusInForce(Tail(calls), Head(calls).a)
  ELSE IF Head(calls).op \in {"end", "end_with"} THEN current
  ELSE IF Head(calls).op = "send" /\ Head(calls).a # <<>> THEN current
  ELSE StatusInForce(Tail(calls), current)

\* The position of the blank line that ends the head.
BlankAt(w) == CHOOSE k \in 2..Len(w) : w[k] = CRLF /\ \A i \in 2..(k - 1) : w[i] # CRLF

\* "HTTP/1.1 200 OK\r\n"
StatusLine200 ==
  <<"H", "T", "T", "P", "/", "1", ".", "1", " ", "2", "0", "0", " ", "O", "K", "\r", "\n">>

\* C22: once a callback has made its sends and ended, the writes are: the status line
\* with the status in force (HTTP/1.1 200 OK when no status call was made), a header
\* block with "Transfer-Encoding: chunked", the blank line, then for each non-empty
\* datum in call order a size line whose hex value is the datum's length, the datum
\* and CRLF, and last the terminator "0\r\n\r\n".
C22_ChunkedBodyOnTheWire ==
  Ended =>
    LET k == BlankAt(wire)
        d == SentData(called)
        body == SubSeq(wire, k + 1, Len(wire))
    IN /\ wire[1] = StatusLine(StatusInForce(called, "OK"))
       /\ (\A i \in 1..Len(called) : called[i].op # "status") => wire[1] = StatusLine200
       /\ \E i \in 2..(k - 1) : wire[i] = HeaderLine(S_Transfer_Encoding, S_chunked)
       /\ Len(body) = 3 * Len(d) + 1
       /\ \A j \in 1..Len(d) :
            LET size == body[3 * j - 2] IN
              /\ Len(size) > 2
              /\ SubSeq(size, Len(size) - 1, Len(size)) = CRLF
              /\ parse_hex_usize(SubSeq(size, 1, Len(size) - 2))
                   = [ok |-> TRUE, val |-> Len(d[j])]
              /\ body[3 * j - 1] = d[j]
              /\ body[3 * j] = CRLF
       /\ body[Len(body)] = S_LastChunk

\* status(NotFound), send of 26 bytes, end_with("pong"): a 404 status line, the head,
\* the chunks "1a" and "4", the terminator.
C22_Witness ==
  /\ Len(called) = 3
  /\ called[1].op = "status" /\ called[1].a = "NotFound"
  /\ called[2].op = "send" /\ called[2].a = D_long
  /\ called[3].op = "end_with" /\ called[3].a = D_pong
  /\ wire[1] = StatusLine("NotFound")
  /\ Len(wire) = 11
  /\ wire[5] = <<"1", "a", "\r", "\n">>

\* The names user code cannot set, as the documentation writes them.
NamesOfTheLibrary ==
  { S_Transfer_Encoding,
    <<"C", "o", "n", "t", "e", "n", "t", "-", "L", "e", "n", "g", "t", "h">>,
    <<"C", "o", "n", "n", "e", "c", "t", "i", "o", "n">>,
    <<"K", "e", "e", "p", "-", "A", "l", "i", "v", "e">>,
    <<"S", "e", "t", "-", "C", "o", "o", "k", "i", "e">>,
    S_Date,
    <<"H", "o", "s", "t">> }

\* The name is one of the library's, in any letter case.
IsNameOfTheLibrary(name) ==
  \E n \in NamesOfTheLibrary : to_lowercase(n) = to_lowercase(name)

\* C23: a set_header call with one of the library's names, in any letter case, leaves
\* the header map (and the rest of the Response, and the wire) as it was, and a
\* response that was ended carries the header line "Transfer-Encoding: chunked".
C23_ForbiddenHeaderIgnored ==
  [][/\ (NextCallIs("set_header") /\ IsNameOfTheLibrary(Head(script).a[1]))
          => (response' = response /\ wire' = wire)
     /\ Ended => \E i \in 2..Len(wire) :
                   wire[i] = HeaderLine(S_Transfer_Encoding, S_chunked)]_vars

\* set_header("Transfer-Encoding", "x"), set_header("Date", "x"), end(): the reply
\* still has the chunked header and the header map is the seeded one.
C23_Witness ==
  /\ Len(called) = 3
  /\ called[1].op = "set_header" /\ called[1].a = <<S_Transfer_Encoding, <<"x">>>>
  /\ called[2].op = "set_header" /\ called[2].a = <<S_Date, <<"x">>>>
  /\ called[3].op = "end"
  /\ response.headers = Response_new.headers
  /\ \E i \in 2..Len(wire) : wire[i] = HeaderLine(S_Transfer_Encoding, S_chunked)

\* "Set-Cookie: ", the start of every cookie line
SetCookieStart == <<"S", "e", "t", "-", "C", "o", "o", "k", "i", "e", ":", " ">>

\* The bytes of the head: everything written up to and including the blank line.
HeadBytes(w) == Concat(SubSeq(w, 1, BlankAt(w)))

\* C24: in the head of a response every line (status line, header lines, Set-Cookie
\* lines) ends with CRLF, so that no line feed stands without a carriage return
\* before it, and every Set-Cookie line comes after all header lines and before the
\* blank line.
C24_HeadLinesEndWithCRLF ==
  wire # <<>> =>
    LET k == BlankAt(wire)
        head == HeadBytes(wire)
    IN /\ \A p \in 1..Len(head) : head[p] = "\n" => (p > 1 /\ head[p - 1] = "\r")
       /\ \A i \in 1..k : SubSeq(wire[i], Len(wire[i]) - 1, Len(wire[i])) = CRLF
       /\ \A i, j \in 2..(k - 1) :
            (StartsWith(wire[i], SetCookieStart) /\ ~StartsWith(wire[j], SetCookieStart))
              => j < i

\* A constructor was applied and has returned.
Returned(f) == fn = f /\ result.done

\* SP HT " , ; / : replaced in cookie names and in cookie values.
ValueSeparators == {" ", "\t", "\"", ",", ";", "/"}

\* The characters replaced in cookie names.
NameSeparators ==
  ValueSeparators \cup {"(", ")", "<", ">", "@", "\\", "[", "]", "?", "=", "{", "}"}

\* s with every character of set S replaced by "_".
Underscored(s, S) == [i \in 1..Len(s) |-> IF s[i] \in S THEN "_" ELSE s[i]]

\* A value without the one pair of double quotes around it, if it has one.
Unquoted(s) ==
  IF Len(s) >= 2 /\ s[1] = "\"" /\ s[Len(s)] = "\""
    THEN SubSeq(s, 2, Len(s) - 1) ELSE s

\* C25: for every name and value given to Cookie::new, the serialized cookie is
\* "<name>=<value>" where the name part has none of SP HT " , ; / ( ) < > @ \ [ ] ? =
\* { } (each is replaced by "_", the other characters are kept), and the value part
\* is the value without its one pair of surrounding quotes, if it has one, with
\* SP HT " , ; / replaced by "_"; Cookie::new("a b", "\"x;y\"") gives "a_b=x_y".
C25_CookieSanitised ==
  Returned("Cookie::new") =>
    LET eq == FindStr(result.shown, <<"=">>) IN
      /\ eq = Len(arg[1]) + 1
      /\ \A i \in 1..(eq - 1) : result.shown[i] \notin NameSeparators
      /\ SubSeq(result.shown, 1, eq - 1) = Underscored(arg[1], NameSeparators)
      /\ SubSeq(result.shown, eq + 1, Len(result.shown))
           = Underscored(Unquoted(arg[2]), ValueSeparators)
      /\ arg = CookieExample
           => result.shown = <<"a", "_", "b", "=", "x", "_", "y">>

\* Cookie::new("a b", "\"x;y\"") has returned the cookie that is shown as a_b=x_y.
C25_Witness ==
  /\ Returned("Cookie::new")
  /\ arg = CookieExample
  /\ result.v = [name |-> <<"a", "_", "b">>, value |-> <<"x", "_", "y">>]

\* Percent-decoding as documented, read from left to right: "%" with two hex digits
\* after it becomes the character of that code, any other character stays.
RECURSIVE PercentDecoded(_)
PercentDecoded(s) ==
  IF s = <<>> THEN <<>>
  ELSE IF s[1] = "%" /\ Len(s) >= 3 /\ IsHexDigit(s[2]) /\ IsHexDigit(s[3])
    THEN <<CharFromCode(16 * HexVal(s[2]) + HexVal(s[3]))>>
           \o PercentDecoded(SubSeq(s, 4, Len(s)))
  ELSE <<s[1]>> \o PercentDecoded(Tail(s))

\* C26: percent-decoding replaces "%HH" by the character with code HH only when two
\* hex digits follow the "%"; every other "%" stays in the decoded string as a
\* literal "%" and the characters after it are unchanged.
C26_OtherPercentStaysLiteral ==
  Returned("Target::decode_url") => result.v = PercentDecoded(arg[1])

\* C27: for every Target obtained by parsing, rendering it and parsing the rendered
\* string again yields the same path and the same query map.
C27_TargetRoundTrip ==
  Returned("Target::new") =>
    /\ full_url(result.again) = full_url(result.v)
    /\ result.again.queries = result.v.queries

\* Whether s is "HTTP/<digits>.<digits>", both runs of digits non-empty.
IsVersionShape(s) ==
  /\ StartsWith(s, S_HTTP \o <<"/">>)
  /\ \E d \in 7..(Len(s) - 1) :
       /\ s[d] = "."
       /\ \A i \in 6..Len(s) : i # d => IsDigit(s[i])

\* C28: for every string that Version::new accepts, rendering the resulting Version
\* gives back exactly the input string, and a string that is not of the shape
\* "HTTP/<digits>.<digits>" is rejected.
C28_VersionRoundTrip ==
  Returned("Version::new") =>
    /\ result.v.ok => result.shown = arg[1]
    /\ ~IsVersionShape(arg[1]) => ~result.v.ok

\* The request at hand carries a Connection header whose value is "close" in some
\* letter case.
CloseAsked ==
  /\ request.some
  /\ S_connection \in DOMAIN request.headers
  /\ to_lowercase(request.headers[S_connection]) = S_close

IsNameEqualsInteger(parameter) ==
  LET i == FindStr(parameter, <<"=">>)
      digits == IF i > 0 /\ i < Len(parameter) /\ parameter[i + 1] = "+"
                  THEN SubSeq(parameter, i + 2, Len(parameter))
                  ELSE SubSeq(parameter, i + 1, Len(parameter))
  IN i > 0 /\ digits # <<>> /\ \A k \in 1..Len(digits) : IsDigit(digits[k])

\* The request at hand carries a Keep-Alive header with a parameter of another form.
BadKeepAlive ==
  /\ request.some
  /\ S_keep_alive \in DOMAIN request.headers
  /\ LET parameters == split(to_lowercase(request.headers[S_keep_alive]), <<",">>) IN
       \E k \in 1..Len(parameters) : ~IsNameEqualsInteger(parameters[k])

\* C30 as stated: once the driver is done with a request whose Keep-Alive header has
\* a parameter that is not name=<non-negative integer>, exactly a 400 reply was sent
\* and no handler ran.
C30_BadKeepAliveIs400Always ==
  (BadKeepAlive /\ pc \in {"terminate", "closed"})
    => (IsReply(wire, "BadRequest") /\ invoked = <<>>)

\* C30 amended: when the headers of a request that passed the request-limit, version
\* and Host checks are processed and its Keep-Alive header has a parameter that is
\* not name=<non-negative integer>, exactly a 400 reply is written, no handler runs
\* and the loop is left for the shutdown.
C30_BadKeepAliveIs400WhenProcessed ==
  [][(pc = "handle_headers" /\ BadKeepAlive)
       => /\ pc' = "terminate"
          /\ IsReply(wire', "BadRequest")
          /\ invoked' = <<>>]_vars

\* "Keep-Alive: timeout=5,max" was answered 400 and the connection closed.
C30_Witness ==
  /\ pc = "closed"
  /\ BadKeepAlive
  /\ request.headers[S_keep_alive] = KA_bad_second
  /\ IsReply(wire, "BadRequest")
  /\ invoked = <<>>

(***************************************************************************)
(* C31..C40                                                                *)
(***************************************************************************)
\* The list registered at the request's exact path.
ExactList == handlers[full_url(request.target)]

\* The position of the first entry of list that is not a Directory entry, 0 if none.
FirstSelector(list) ==
  IF \E i \in 1..Len(list) : list[i].sel # "Directory"
    THEN CHOOSE i \in 1..Len(list) :
           list[i].sel # "Directory" /\ \A j \in 1..(i - 1) : list[j].sel = "Directory"
    ELSE 0

SlashPrefixes(path) ==
  { SubSeq(path, 1, k) : k \in {j \in 1..Len(path) : j = Len(path) \/ path[j + 1] = "/"} }

\* The table has a Directory entry registered at path p.
HasDirectory(p) ==
  p \in DOMAIN handlers /\ \E i \in 1..Len(handlers[p]) : handlers[p][i].sel = "Directory"

\* The first Directory entry registered at p.
FirstDirectory(p) ==
  handlers[p][CHOOSE i \in 1..Len(handlers[p]) :
                /\ handlers[p][i].sel = "Directory"
                /\ \A j \in 1..(i - 1) : handlers[p][j].sel # "Directory"]

\* C34: when the table has no list at the request's exact path, the handler invoked
\* is the first Directory entry of the shortest prefix of the path, taken at slash
\* boundaries, that has one (never an Any or Specific entry), and when no such
\* prefix has a Directory entry the reply is 404 and the loop is left.
C34_ShortestDirectoryPrefix ==
  [][(pc = "route" /\ full_url(request.target) \notin DOMAIN handlers)
       => LET with == {p \in SlashPrefixes(full_url(request.target)) : HasDirectory(p)} IN
            IF with # {}
              THEN LET shortest == CHOOSE p \in with : \A q \in with : Len(p) <= Len(q) IN
                     /\ pc' = "handler"
                     /\ invoked' = <<FirstDirectory(shortest).cb>>
                     /\ request'.target.target_path = shortest
              ELSE /\ pc' = "terminate"
                   /\ IsReply(wire', "NotFound")
                   /\ invoked' = <<>>]_vars

\* This step writes exactly one empty reply with status s, runs no handler and leaves
\* the loop.
RepliesAndLeaves(s) == pc' = "terminate" /\ IsReply(wire', s) /\ invoked' = <<>>

\* This step lets the request pass to the check at position p, writing nothing.
PassesTo(p) == pc' = p /\ wire' = <<>> /\ invoked' = <<>>

\* C35: the driver applies its checks to a parsed request in this order, the first
\* failing one deciding: the request count (over the limit: the loop is left with
\* nothing written), then the version (505 for another major, 400 for a greater
\* minor, 426 for a smaller one), then the Host header (400), then the Connection and
\* Keep-Alive headers (400), then routing (404 when it leaves the loop).  So an
\* HTTP/2.0 request without Host within the limit ends with a 505 reply, and a
\* request over the limit with another version ends with no byte written.
C35_ChecksInOrder ==
  [][/\ pc = "count" =>
          IF connection.requests_received + 1 > connection.max_requests
            THEN pc' = "terminate" /\ wire' = <<>> /\ invoked' = <<>>
            ELSE PassesTo("version_check")
     /\ pc = "version_check" =>
          IF request.version.major # 1 THEN RepliesAndLeaves("HttpVersionNotSupported")
          ELSE IF request.version.minor > 1 THEN RepliesAndLeaves("BadRequest")
          ELSE IF request.version.minor < 1 THEN RepliesAndLeaves("UpgradeRequired")
          ELSE PassesTo("host_check")
     /\ pc = "host_check" =>
          IF S_host \notin DOMAIN request.headers
            THEN RepliesAndLeaves("BadRequest") ELSE PassesTo("handle_headers")
     /\ pc = "handle_headers" =>
          IF BadKeepAlive THEN RepliesAndLeaves("BadRequest") ELSE PassesTo("route")
     /\ (pc = "route" /\ pc' = "terminate") => RepliesAndLeaves("NotFound")
     /\ pc' = "count" => (request'.some /\ ~request.some)
     /\ pc' = "version_check" => pc = "count"
     /\ pc' = "host_check" => pc = "version_check"
     /\ pc' = "handle_headers" => pc = "host_check"
     /\ pc' = "route" => pc = "handle_headers"
     /\ (pc' = "closed" /\ request.some /\ request.version.major # 1) =>
          IF connection.requests_received > connection.max_requests
            THEN wire = <<>> ELSE IsReply(wire, "HttpVersionNotSupported")]_vars

\* A request over the connection's limit that also has version HTTP/2.0 was closed
\* with no byte written.
C35_Witness ==
  /\ pc = "closed"
  /\ request.some
  /\ request.version = [major |-> 2, minor |-> 0]
  /\ connection.requests_received > connection.max_requests
  /\ wire = <<>>
  /\ invoked = <<>>

\* C36: read_line returns the bytes before the first "\r\n" and leaves what follows
\* it unread; a "\n" not directly preceded by "\r" is an ordinary character of the
\* line at every position, the first included, and neither ends nor fails the read:
\* without a "\r\n" the read goes on waiting with all the bytes kept.
C36_BareLineFeedIsOrdinary ==
  Returned("read_line") =>
    LET i == FindStr(arg[1], CRLF) IN
      IF i > 0
        THEN result.v = [kind |-> "line", line |-> SubSeq(arg[1], 1, i - 1),
                         rest |-> SubSeq(arg[1], i + 2, Len(arg[1]))]
        ELSE result.v = [kind |-> "more", line |-> arg[1], rest |-> <<>>]

\* C37: max_requests is 5 at the start and at most 20 in every state, it changes only
\* while the headers of a request with a Keep-Alive header are processed, the request
\* counter grows by one per parsed request, and a handler is entered only for a
\* request counted 20th or earlier: at most 20 requests of a connection are
\* dispatched, whatever Keep-Alive headers the client sends and in whatever order.
C37_AtMostTwentyRequests ==
  [][/\ connection.max_requests <= 20
     /\ connection.requests_received = 0 => connection.max_requests = 5
     /\ connection'.max_requests # connection.max_requests
          => (pc = "handle_headers" /\ S_keep_alive \in DOMAIN request.headers)
     /\ connection'.requests_received # connection.requests_received
          => (pc = "count" /\ connection'.requests_received = connection.requests_received + 1)
     /\ pc' = "handler" => connection'.requests_received <= 20
     /\ (pc = "route" /\ pc' = "handler") => Len(invoked') = 1]_vars

\* The 20th request of a connection is given to its handler.
C37_Witness ==
  /\ pc = "handler"
  /\ invoked = <<"pong">>
  /\ connection.requests_received = 20
  /\ connection.max_requests = 20

\* The request at hand passed the version, Host and header checks.
PassedHeaderChecks ==
  /\ request.some
  /\ request.version = [major |-> 1, minor |-> 1]
  /\ S_host \in DOMAIN request.headers
  /\ ~BadKeepAlive

\* C40: a handler is entered only from the routing block, for a request with version
\* 1.1, a host header and valid Keep-Alive parameters, that was counted within
\* max_requests when the count was checked (the limit still stands while the version
\* and Host are checked), and at most one handler is entered per request.
C40_HandlerOnlyAfterChecks ==
  [][/\ (pc' = "handler" /\ pc # "handler")
          => (pc = "route" /\ invoked = <<>> /\ Len(invoked') = 1)
     /\ pc \in {"route", "handler"} => PassedHeaderChecks
     /\ (pc = "count" /\ pc' # "terminate")
          => connection'.requests_received <= connection'.max_requests
     /\ pc \in {"version_check", "host_check", "handle_headers"}
          => connection.requests_received <= connection.max_requests
     /\ Len(invoked) <= 1
     /\ invoked' # invoked => (pc = "route" \/ pc = "loop_head")]_vars

\* The connection's fourth request, which itself lowers max to 3, is with its handler.
C40_Witness ==
  /\ pc = "handler"
  /\ Len(invoked) = 1
  /\ PassedHeaderChecks
  /\ connection.requests_received = 4
  /\ connection.max_requests = 3

\* The status lines among the writes made for the request at hand.
StatusLinesWritten == {i \in 1..Len(wire) : StartsWith(wire[i], StatusLineStart)}

\* C39: for any request, well-formed or not, and on every failure path, at most one
\* status line is written to the stream in reply to that request.
C39_AtMostOneStatusLine == Cardinality(StatusLinesWritten) <= 1

\* C31: connections are independent under every interleaving of their workers: no
\* step changes the handler table; a step of the running worker leaves the variables
\* of every other worker (its bytes written, its close, timeout, max_requests and
\* requests_received) as they were; accepting a connection and switching threads
\* change no worker's variables; and whatever the running worker is doing, idle or
\* blocked in a read included, every other worker can be run.
C31_ConnectionsIndependent ==
  [][/\ handlers' = handlers
     /\ \/ others' = others
        \/ Worker' = Worker /\ others' = Append(others, NewWorker)
        \/ \E i \in DOMAIN others :
             Worker' = others[i] /\ others' = [others EXCEPT ![i] = Worker]
     /\ \A i \in DOMAIN others : ENABLED Switch(i)]_vars

\* One connection sits idle, nothing received and nothing written, while another has
\* been served twice and had its timeout lowered by its own Keep-Alive header.
C31_Witness ==
  /\ others # <<>>
  /\ others[1].pc = "request_line"
  /\ others[1].connection.requests_received = 0
  /\ others[1].connection.timeout = DefaultTimeout
  /\ others[1].wire = <<>>
  /\ connection.requests_received = 2
  /\ connection.timeout = 30
  /\ pc = "handler" /\ script = <<>> /\ wire # <<>>

\* C32: when a write to the stream fails while a response is being emitted, the
\* error reaches the driver, which abandons the connection by shutting it down
\* (the worker is then at terminate_connection), and from then on no further byte
\* is written and no further request is read on the connection.
C32_WriteErrorReachesDriver ==
  [][/\ (HandlerWriteFails \/ QuickWriteFails) => pc' = "terminate"
     /\ pc = "panicked" => wire' = wire /\ request' = request]_vars

\* C38: every connection worker eventually terminates: from the moment the peer has
\* stopped sending (its end of stream is what the reads see), and from the moment the
\* driver has left its loop, the socket shutdown is eventually done and the worker
\* exits, also when the shutdown call reports an error.
C38_WorkerTerminates == [](((eof /\ input = <<>>) \/ pc = "terminate") => <>(pc = "closed"))

====
